---- MODULE Spec2Model ----
(***************************************************************************)
(* Model of the command handling of the bot: the structural normaliser and *)
(* difference engine (helpers/functions), the slash-command builder,       *)
(* validateCommandStructure and findSlashChanges (helpers/command), the    *)
(* command loader with the `ready` / `guildCreate` listeners it installs   *)
(* (handlers/command), the commandCreate router (events/guild), the guild   *)
(* settings cache (handlers/botCache), logError and handlePagination       *)
(* (helpers/functions), and the startup and the backup job of main (index).*)
(***************************************************************************)
EXTENDS Naturals, Integers, Sequences, FiniteSets, TLC

(***************************************************************************)
(* Bounds of the model.                                                    *)
(***************************************************************************)
MaxPasses == 2
MaxGuilds == 2
MaxFailures == 1

(***************************************************************************)
(* JavaScript values.  Every value is a record [t, v]: t is the type tag   *)
(* and v the payload.  An object is the sequence of its entries            *)
(* <<key, value>> in insertion order; an array is the sequence of its      *)
(* elements.  A "ref" stands for an object that has an identity in a heap  *)
(* (it can be shared or lie on a cycle); an object or array written        *)
(* inline is a fresh object that is reachable along one path only.         *)
(***************************************************************************)
Null == [t |-> "null", v |-> "null"]
Undefined == [t |-> "undefined", v |-> "undefined"]
Str(s) == [t |-> "string", v |-> s]
Num(n) == [t |-> "number", v |-> n]
NaN == [t |-> "NaN", v |-> "NaN"]
Bool(b) == [t |-> "boolean", v |-> b]
Arr(s) == [t |-> "array", v |-> s]
Obj(e) == [t |-> "object", v |-> e]
Ref(i) == [t |-> "ref", v |-> i]
Builder(b) == [t |-> "builder", v |-> b]
AppCommand(c) == [t |-> "appcommand", v |-> c]

EmptyHeap == <<>>

\* value !== null && value !== undefined
IsNotNullish(x) == x.t \notin {"null", "undefined"}

\* value !== null
IsNotNull(x) == x.t # "null"

\* Object.keys(o), in insertion order
RECURSIVE KeysOfEntries(_)
KeysOfEntries(e) == IF e = <<>> THEN <<>> ELSE <<Head(e)[1]>> \o KeysOfEntries(Tail(e))

ObjectKeys(o) == KeysOfEntries(o.v)

SeqToSet(s) == {s[i] : i \in 1..Len(s)}

\* o?.[key]: undefined when o is not an object or has no such key
GetKey(o, key) ==
    IF o.t = "object" /\ \E i \in 1..Len(o.v) : o.v[i][1] = key
    THEN o.v[CHOOSE i \in 1..Len(o.v) : o.v[i][1] = key][2]
    ELSE Undefined

(***************************************************************************)
(* String.prototype.toLowerCase, character by character.                   *)
(***************************************************************************)
LowerCaseOf ==
    [A |-> "a", B |-> "b", C |-> "c", D |-> "d", E |-> "e", F |-> "f", G |-> "g",
     H |-> "h", I |-> "i", J |-> "j", K |-> "k", L |-> "l", M |-> "m", N |-> "n",
     O |-> "o", P |-> "p", Q |-> "q", R |-> "r", S |-> "s", T |-> "t", U |-> "u",
     V |-> "v", W |-> "w", X |-> "x", Y |-> "y", Z |-> "z"]

RECURSIVE ToLowerCase(_)
ToLowerCase(s) ==
    IF s = "" THEN ""
    ELSE LET first == SubSeq(s, 1, 1)
         IN (IF first \in DOMAIN LowerCaseOf THEN LowerCaseOf[first] ELSE first)
            \o ToLowerCase(Tail(s))

(***************************************************************************)
(* Plain forms.  A SlashCommandBuilder is kept as the record               *)
(* [name, description, options], options being the sequence of its         *)
(* subcommands [name, description, options], whose options are records     *)
(* [type, name, description, required].  An ApplicationCommand is kept as  *)
(* [id, guildId, name, description, options].  toJSON() turns either into  *)
(* a plain object; the two sides do not produce the same keys.             *)
(***************************************************************************)
SubcommandType == 1

RECURSIVE MapSeq(_, _)
MapSeq(Op(_), s) == IF s = <<>> THEN <<>> ELSE <<Op(Head(s))>> \o MapSeq(Op, Tail(s))

\* option.toJSON() of a built option
OptionToJSON(o) ==
    Obj(<< <<"type", Num(o.type)>>, <<"name", Str(o.name)>>,
           <<"description", Str(o.description)>>, <<"required", Bool(o.required)>> >>)

\* subcommand.toJSON() of a built subcommand: options is always an array
SubcommandToJSON(sc) ==
    Obj(<< <<"type", Num(SubcommandType)>>, <<"name", Str(sc.name)>>,
           <<"name_localizations", Undefined>>,
           <<"description", Str(sc.description)>>,
           <<"options", Arr(MapSeq(OptionToJSON, sc.options))>> >>)

\* SlashCommandBuilder.toJSON()
BuilderToJSON(b) ==
    Obj(<< <<"name", Str(b.name)>>, <<"name_localizations", Undefined>>,
           <<"description", Str(b.description)>>,
           <<"options", Arr(MapSeq(SubcommandToJSON, b.options))>>,
           <<"default_member_permissions", Undefined>> >>)

\* a subcommand as the platform returns it: no options key when it has none,
\* no required key on a subcommand
RemoteSubcommandToJSON(sc) ==
    Obj(<< <<"type", Num(SubcommandType)>>, <<"name", Str(sc.name)>>,
           <<"nameLocalizations", Null>>,
           <<"description", Str(sc.description)>>,
           <<"required", Undefined>>,
           <<"options", IF sc.options = <<>> THEN Undefined
                        ELSE Arr(MapSeq(OptionToJSON, sc.options))>> >>)

\* ApplicationCommand.toJSON(): the flattened command with its bookkeeping
AppCommandToJSON(c) ==
    Obj(<< <<"id", Str(c.id)>>,
           <<"guildId", IF c.guildId = 0 THEN Null ELSE Num(c.guildId)>>,
           <<"name", Str(c.name)>>, <<"description", Str(c.description)>>,
           <<"options", Arr(MapSeq(RemoteSubcommandToJSON, c.options))>>,
           <<"version", Str("v1")>> >>)

\* object.toJSON ? object.toJSON() : { ...object }
PlainObject(object) ==
    CASE object.t = "builder" -> BuilderToJSON(object.v)
      [] object.t = "appcommand" -> AppCommandToJSON(object.v)
      [] OTHER -> object

(***************************************************************************)
(* deepNormalise(object, keysToKeep, seen, isTopLevel).  keysToKeep is     *)
(* [given, keys]; seen is the WeakSet, the set of identities met so far in *)
(* the whole call tree; the result is [val, seen].                         *)
(***************************************************************************)
NoKeysToKeep == [given |-> FALSE, keys |-> {}]
KeysToKeep(ks) == [given |-> TRUE, keys |-> ks]

IsObjectType(x) == x.t \in {"array", "object", "ref", "builder", "appcommand"}

RECURSIVE deepNormalise(_, _, _, _, _)
RECURSIVE NormaliseItems(_, _, _, _)
RECURSIVE NormaliseEntries(_, _, _, _, _)

\* object.map(item => deepNormalise(item, keysToKeep, seen, false))
NormaliseItems(items, keysToKeep, seen, heap) ==
    IF items = <<>> THEN [vals |-> <<>>, seen |-> seen]
    ELSE LET first == deepNormalise(Head(items), keysToKeep, seen, FALSE, heap)
             rest == NormaliseItems(Tail(items), keysToKeep, first.seen, heap)
         IN [vals |-> <<first.val>> \o rest.vals, seen |-> rest.seen]

\* variant: the entry is kept when the value, not its normal form, is not null
NormaliseEntries_ChecksRawValue(entries, keysToKeep, seen, isTopLevel, heap) ==
    IF entries = <<>> THEN [entries |-> <<>>, seen |-> seen]
    ELSE LET key == Head(entries)[1]
             value == Head(entries)[2]
         IN IF isTopLevel /\ keysToKeep.given /\ key \notin keysToKeep.keys
            THEN NormaliseEntries(Tail(entries), keysToKeep, seen, isTopLevel, heap)
            ELSE LET normalisedValue == deepNormalise(value, keysToKeep, seen, FALSE, heap)
                     rest == NormaliseEntries(Tail(entries), keysToKeep,
                                              normalisedValue.seen, isTopLevel, heap)
                 IN [entries |-> (IF IsNotNull(value)
                                  THEN << <<key, normalisedValue.val>> >>
                                  ELSE <<>>) \o rest.entries,
                     seen |-> rest.seen]

\* Object.entries(plainObject).reduce(...)
NormaliseEntries(entries, keysToKeep, seen, isTopLevel, heap) ==
    IF entries = <<>> THEN [entries |-> <<>>, seen |-> seen]
    ELSE LET key == Head(entries)[1]
             value == Head(entries)[2]
         IN IF isTopLevel /\ keysToKeep.given /\ key \notin keysToKeep.keys
            THEN NormaliseEntries(Tail(entries), keysToKeep, seen, isTopLevel, heap)
            ELSE LET normalisedValue == deepNormalise(value, keysToKeep, seen, FALSE, heap)
                     rest == NormaliseEntries(Tail(entries), keysToKeep,
                                              normalisedValue.seen, isTopLevel, heap)
                 IN [entries |-> (IF IsNotNull(normalisedValue.val)
                                  THEN << <<key, normalisedValue.val>> >>
                                  ELSE <<>>) \o rest.entries,
                     seen |-> rest.seen]

\* variant: an object met again is returned as an empty object, not as null
deepNormalise_SeenAsEmpty(object, keysToKeep, seen, isTopLevel, heap) ==
    IF object.t \in {"null", "undefined"} THEN [val |-> Null, seen |-> seen]
    ELSE IF IsObjectType(object)
    THEN IF object.t = "ref" /\ object.v \in seen
         THEN [val |-> Obj(<<>>), seen |-> seen]
         ELSE LET seenNow == IF object.t = "ref" THEN seen \cup {object.v} ELSE seen
                  target == IF object.t = "ref" THEN heap[object.v] ELSE object
              IN IF target.t = "array"
                 THEN LET normalisedArrayUnfiltered ==
                              NormaliseItems(target.v, keysToKeep, seenNow, heap)
                          normalisedArray ==
                              SelectSeq(normalisedArrayUnfiltered.vals, IsNotNullish)
                      IN [val |-> IF Len(normalisedArray) > 0
                                  THEN Arr(normalisedArray) ELSE Null,
                          seen |-> normalisedArrayUnfiltered.seen]
                 ELSE LET plainObject == PlainObject(target)
                          acc == NormaliseEntries(plainObject.v, keysToKeep, seenNow,
                                                  isTopLevel, heap)
                      IN [val |-> Obj(acc.entries), seen |-> acc.seen]
    ELSE [val |-> object, seen |-> seen]

deepNormalise(object, keysToKeep, seen, isTopLevel, heap) ==
    IF object.t \in {"null", "undefined"} THEN [val |-> Null, seen |-> seen]
    ELSE IF IsObjectType(object)
    THEN IF object.t = "ref" /\ object.v \in seen
         THEN [val |-> Null, seen |-> seen]
         ELSE LET seenNow == IF object.t = "ref" THEN seen \cup {object.v} ELSE seen
                  target == IF object.t = "ref" THEN heap[object.v] ELSE object
              IN IF target.t = "array"
                 THEN LET normalisedArrayUnfiltered ==
                              NormaliseItems(target.v, keysToKeep, seenNow, heap)
                          normalisedArray ==
                              SelectSeq(normalisedArrayUnfiltered.vals, IsNotNullish)
                      IN [val |-> IF Len(normalisedArray) > 0
                                  THEN Arr(normalisedArray) ELSE Null,
                          seen |-> normalisedArrayUnfiltered.seen]
                 ELSE LET plainObject == PlainObject(target)
                          acc == NormaliseEntries(plainObject.v, keysToKeep, seenNow,
                                                  isTopLevel, heap)
                      IN [val |-> Obj(acc.entries), seen |-> acc.seen]
    ELSE [val |-> object, seen |-> seen]

(***************************************************************************)
(* findDifferences(newObject, existingObject)                              *)
(***************************************************************************)
\* a !== b when a is a primitive, null or undefined; NaN !== NaN
StrictNotEqual(a, b) == a.t = "NaN" \/ ~(a.t = b.t /\ a.v = b.v)

\* variant: differences.every(diff => diff !== null)
SomeNotNull_Every(s) == \A i \in 1..Len(s) : IsNotNull(s[i])

\* differences.some(diff => diff !== null)
SomeNotNull(s) == \E i \in 1..Len(s) : IsNotNull(s[i])

RECURSIVE findDifferences(_, _)
RECURSIVE DiffItems(_, _, _)
RECURSIVE DiffKeys(_, _, _)

\* newObject.map((item, index) => findDifferences(item, existingObject[index]))
DiffItems(newItems, existingItems, index) ==
    IF index > Len(newItems) THEN <<>>
    ELSE <<findDifferences(newItems[index], existingItems[index])>>
         \o DiffItems(newItems, existingItems, index + 1)

\* the loop over Object.keys(newObject) that fills diffObject
DiffKeys(entries, existingObject, index) ==
    IF index > Len(entries) THEN <<>>
    ELSE LET key == entries[index][1]
             diff == findDifferences(entries[index][2], GetKey(existingObject, key))
         IN (IF IsNotNull(diff) THEN << <<key, diff>> >> ELSE <<>>)
            \o DiffKeys(entries, existingObject, index + 1)

findDifferences(newObject, existingObject) ==
    IF newObject.t \notin {"array", "object"}
    THEN IF StrictNotEqual(newObject, existingObject) THEN newObject ELSE Null
    ELSE IF newObject.t = "array"
    THEN IF existingObject.t # "array" \/ Len(newObject.v) # Len(existingObject.v)
         THEN newObject
         ELSE LET differences == DiffItems(newObject.v, existingObject.v, 1)
              IN IF SomeNotNull(differences) THEN Arr(differences) ELSE Null
    ELSE LET diffObject == DiffKeys(newObject.v, existingObject, 1)
         IN IF Len(diffObject) > 0 THEN Obj(diffObject) ELSE Null

(***************************************************************************)
(* findSlashChanges(newCommand, existingCommand)                           *)
(***************************************************************************)
findSlashChanges(newCommand, existingCommand) ==
    LET normalisedNew == deepNormalise(Builder(newCommand), NoKeysToKeep, {}, TRUE,
                                       EmptyHeap).val
        normalisedExisting ==
            deepNormalise(AppCommand(existingCommand),
                          KeysToKeep(SeqToSet(ObjectKeys(normalisedNew))), {}, TRUE,
                          EmptyHeap).val
        differences == findDifferences(normalisedNew, normalisedExisting)
    IN differences
(***************************************************************************)
(* buildSlashCommand(commandDetails, categoryName), as loadCommands calls  *)
(* it: one builder per command definition, named after the category, with *)
(* the definition as its only subcommand.  A definition is                 *)
(* [name, description, category, options]; an option spec is              *)
(* [kind, name, description, required] for the single-key mapping          *)
(* { kind: { name, description, required? } }, required being "true",      *)
(* "false" or "absent".                                                    *)
(***************************************************************************)
\* optionBuilderMapping: the option type each known kind builds, 0 if unknown
OptionBuilderMapping(kind) ==
    CASE kind = "string" -> 3
      [] kind = "integer" -> 4
      [] kind = "boolean" -> 5
      [] kind = "user" -> 6
      [] kind = "channel" -> 7
      [] kind = "role" -> 8
      [] kind = "mentionable" -> 9
      [] kind = "number" -> 10
      [] kind = "attachment" -> 11
      [] OTHER -> 0

\* addOption: setName, setDescription, setRequired(details.required || false)
addOption(type, details) ==
    [type |-> type, name |-> details.name, description |-> details.description,
     required |-> (details.required = "true")]

RECURSIVE BuildOptions(_)
BuildOptions(options) ==
    IF options = <<>> THEN <<>>
    ELSE LET commandOption == Head(options)
             optionBuilder == OptionBuilderMapping(ToLowerCase(commandOption.kind))
         IN (IF optionBuilder # 0 THEN <<addOption(optionBuilder, commandOption)>>
             ELSE <<>>) \o BuildOptions(Tail(options))

buildSlashCommand(commandDetails, categoryName) ==
    [name |-> ToLowerCase(categoryName),
     description |-> categoryName \o " commands",
     options |-> << [name |-> ToLowerCase(commandDetails.name),
                     description |-> commandDetails.description,
                     options |-> BuildOptions(commandDetails.options)] >>]

(***************************************************************************)
(* The command definitions on disk (all of them pass validation) and the   *)
(* slashCommandsMap that loadCommands fills from the ones it loads.        *)
(***************************************************************************)
HelpDefinition ==
    [name |-> "Help", description |-> "Shows help", category |-> "Misc",
     options |-> << [kind |-> "String", name |-> "category",
                     description |-> "The category", required |-> "absent"] >>]
InfoDefinition ==
    [name |-> "info", description |-> "Shows statistics", category |-> "Misc",
     options |-> <<>>]
PingDefinition ==
    [name |-> "ping", description |-> "Pong", category |-> "Fun", options |-> <<>>]

DefinitionFiles == {HelpDefinition, InfoDefinition, PingDefinition}

\* the sets of definitions the commands directory may hold
LoadedChoices ==
    {{HelpDefinition}, {HelpDefinition, InfoDefinition},
     {HelpDefinition, PingDefinition}}

\* slashCommandsMap.set(commandDefinition.name.toLowerCase(), slashCommand)
SlashCommandsMapOf(definitions) ==
    [key \in {ToLowerCase(d.name) : d \in definitions} |->
        LET commandDefinition == CHOOSE d \in definitions : ToLowerCase(d.name) = key
        IN buildSlashCommand(commandDefinition, commandDefinition.category)]

\* Array.from(slashCommandsMap.values())
MapValues(map) == {map[k] : k \in DOMAIN map}

(***************************************************************************)
(* The platform.  Scope 0 is the application-wide command set, scope g > 0 *)
(* the command set of guild g.  The platform keeps one command per name in *)
(* a scope; it parses the payload of a create, edit or set.                *)
(***************************************************************************)
GlobalScope == 0
AllGuilds == 1..MaxGuilds
Scopes == {GlobalScope} \cup AllGuilds

ParseOption(json) ==
    [type |-> GetKey(json, "type").v, name |-> GetKey(json, "name").v,
     description |-> GetKey(json, "description").v,
     required |-> (GetKey(json, "required") = Bool(TRUE))]

ParseOptions(json) ==
    IF json.t = "array" THEN MapSeq(ParseOption, json.v) ELSE <<>>

ParseSubcommand(json) ==
    [name |-> GetKey(json, "name").v, description |-> GetKey(json, "description").v,
     options |-> ParseOptions(GetKey(json, "options"))]

ParseSubcommands(json) ==
    IF json.t = "array" THEN MapSeq(ParseSubcommand, json.v) ELSE <<>>

\* the command a scope holds after create(payload)
CreatedCommand(scope, payload) ==
    [id |-> "id-" \o GetKey(payload, "name").v, guildId |-> scope,
     name |-> GetKey(payload, "name").v,
     description |-> GetKey(payload, "description").v,
     options |-> ParseSubcommands(GetKey(payload, "options"))]

\* the command after edit(commandChanges): only the keys sent are replaced
EditedCommand(command, commandChanges) ==
    [command EXCEPT
        !.name = IF GetKey(commandChanges, "name").t = "string"
                 THEN GetKey(commandChanges, "name").v ELSE @,
        !.description = IF GetKey(commandChanges, "description").t = "string"
                        THEN GetKey(commandChanges, "description").v ELSE @,
        !.options = IF GetKey(commandChanges, "options").t = "array"
                    THEN ParseSubcommands(GetKey(commandChanges, "options")) ELSE @]
(***************************************************************************)
(* Collection (discord.js): a collection of commands keyed by id is kept   *)
(* as the set of the commands.                                             *)
(***************************************************************************)
EmptyCollection == {}

\* collection.concat(...others): a NEW collection holding the receiver's
\* entries and the others'; the receiver is left as it was
CollectionConcat(collection, others) == collection \cup UNION others

\* collection.subtract(other): the receiver's entries that other lacks
CollectionSubtract(collection, other) == collection \ other

\* `collection.concat(...others);` used as a statement: the collection that
\* concat returns is dropped, the receiver is what the code goes on with
ConcatStatement(collection, others) ==
    LET returned == CollectionConcat(collection, others) IN collection

(***************************************************************************)
(* The plan of the `ready` listener.                                       *)
(***************************************************************************)
\* variant: the filter compares with the name of the definition's subcommand
ExistingCommands_BySubcommand(currentCommands, slashCommand) ==
    {command \in currentCommands : command.name = slashCommand.options[1].name}

\* currentCommands.filter(command => command.name === slashCommand.name)
ExistingCommands(currentCommands, slashCommand) ==
    {command \in currentCommands : command.name = slashCommand.name}

\* variant: a builder whose existing command differs is pushed to commandsToAdd too
CommandsToAdd_AlsoChanged(map, currentCommands) ==
    {slashCommand \in MapValues(map) :
        \A command \in currentCommands :
            command.name = slashCommand.name
                => IsNotNull(findSlashChanges(slashCommand, command))}

\* commandsToAdd: the builders with no existing command
CommandsToAdd(map, currentCommands) ==
    {slashCommand \in MapValues(map) :
        ExistingCommands(currentCommands, slashCommand) = {}}

\* variant: only the command's own description is compared, its options are not
CommandsToUpdate_DescriptionOnly(map, currentCommands) ==
    {entry \in {<<existingCommand, slashCommand,
                  findSlashChanges(slashCommand, existingCommand)>> :
                    existingCommand \in currentCommands,
                    slashCommand \in MapValues(map)} :
        /\ entry[1].name = entry[2].name
        /\ IsNotNull(entry[3])
        /\ entry[1].description # entry[2].description}

\* commandsToUpdate: [existingCommand, slashCommand, differences] for every
\* existing command of a builder with differences !== null
CommandsToUpdate(map, currentCommands) ==
    {entry \in {<<existingCommand, slashCommand,
                  findSlashChanges(slashCommand, existingCommand)>> :
                    existingCommand \in currentCommands,
                    slashCommand \in MapValues(map)} :
        /\ entry[1].name = entry[2].name
        /\ IsNotNull(entry[3])}

\* commandTracker after the loop: commandTracker.concat(existingCommands) is a
\* statement in every iteration
CommandTracker(map, currentCommands) ==
    ConcatStatement(EmptyCollection,
                    {ExistingCommands(currentCommands, slashCommand) :
                        slashCommand \in MapValues(map)})

\* currentCommands for the mode
CurrentCommands(global, globalCommands, fulfilledGuildCommands) ==
    IF global THEN globalCommands
    ELSE CollectionConcat(EmptyCollection, {fulfilledGuildCommands})

\* commandsToDelete when the deletion phase starts: the other mode's commands
\* and the commands no file serves any more, both added by concat statements
CommandsToDelete(global, map, globalCommands, fulfilledGuildCommands) ==
    LET currentCommands == CurrentCommands(global, globalCommands,
                                           fulfilledGuildCommands)
        otherMode == IF global THEN fulfilledGuildCommands ELSE globalCommands
        afterMode == ConcatStatement(EmptyCollection, {otherMode})
        commandTracker == CommandTracker(map, currentCommands)
    IN ConcatStatement(afterMode,
                       {CollectionSubtract(commandTracker, currentCommands)})

\* commandChanges of one commandsToUpdate entry: for every key of differences,
\* the value of the builder's JSON under that key
RECURSIVE PickKeys(_, _)
PickKeys(keys, json) ==
    IF keys = <<>> THEN <<>>
    ELSE << <<Head(keys), GetKey(json, Head(keys))>> >> \o PickKeys(Tail(keys), json)

CommandChanges(entry) == Obj(PickKeys(ObjectKeys(entry[3]), BuilderToJSON(entry[2])))

(***************************************************************************)
(* Remote operations in flight: [kind, scope, name, payload].              *)
(***************************************************************************)
DeleteOp(command) ==
    [kind |-> "delete", scope |-> command.guildId, name |-> command.name,
     payload |-> Null]

EditOp(entry) ==
    [kind |-> "edit", scope |-> entry[1].guildId, name |-> entry[1].name,
     payload |-> CommandChanges(entry)]

CreateOp(scope, slashCommand) ==
    [kind |-> "create", scope |-> scope, name |-> slashCommand.name,
     payload |-> BuilderToJSON(slashCommand)]

\* console.error('[CommandLoader] Client application is unavailable.')
ApplicationUnavailable ==
    [kind |-> "application", scope |-> GlobalScope, name |-> "*", payload |-> Null]

\* guildInstance.commands.fetch() / application.commands.fetch()
FetchOp(scope) ==
    [kind |-> "fetch", scope |-> scope, name |-> "*", payload |-> Null]

\* guildInstance.commands.set(Array.from(slashCommandsMap.values()).map(toJSON))
SetOp(guild, map) ==
    [kind |-> "set", scope |-> guild, name |-> "*",
     payload |-> {BuilderToJSON(slashCommand) : slashCommand \in MapValues(map)}]

\* the deletes, edits and creates the listener issues for a plan
DeleteOps(toDelete) == {DeleteOp(command) : command \in toDelete}
EditOps(toUpdate) == {EditOp(entry) : entry \in toUpdate}
\* variant: the additions go to every guild whatever the mode is
CreateOps_EveryGuildInAnyMode(global, joined, toAdd) ==
    {CreateOp(scope, slashCommand) : scope \in joined, slashCommand \in toAdd}

CreateOps(global, joined, toAdd) ==
    {CreateOp(scope, slashCommand) :
        scope \in (IF global THEN {GlobalScope} ELSE joined), slashCommand \in toAdd}

\* does the listener wait for the operations of a phase before it goes on?
\* deletes: Promise.allSettled over async functions; edits: the map callback
\* returns nothing, so Promise.all gets no promise; creates: the same in
\* global mode, while the per-guild callback returns the promise
AwaitsPhase(kind, global) ==
    CASE kind = "delete" -> TRUE
      [] kind = "edit" -> FALSE
      [] kind = "create" -> ~global
      [] OTHER -> TRUE

\* variant: existingCommand.edit(commandChanges) without its catch
FailureIsCaught_EditUncaught(kind) == kind # "edit"

\* what happens to the rejection of an operation: every call site has a
\* catch (or a try/catch around its await) that logs; nothing is rethrown
FailureIsCaught(kind) == TRUE
(***************************************************************************)
(* More of JavaScript: functions as values, truthiness and typeof.  A      *)
(* function value carries how a call of it ends: "sync" functions return   *)
(* or throw, "async" functions return a promise that resolves or rejects.  *)
(***************************************************************************)
Fn(how) == [t |-> "function", v |-> how]

\* !!x
Truthy(x) ==
    CASE x.t \in {"null", "undefined"} -> FALSE
      [] x.t = "string" -> x.v # ""
      [] x.t = "number" -> x.v # 0
      [] x.t = "boolean" -> x.v
      [] x.t = "NaN" -> FALSE
      [] OTHER -> TRUE

\* typeof x
TypeOf(x) ==
    CASE x.t \in {"string", "number", "boolean", "function", "undefined"} -> x.t
      [] x.t = "NaN" -> "number"
      [] OTHER -> "object"

\* Array.isArray(x)
IsArray(x) == x.t = "array"

\* x[Object.keys(x)[0]] of a value that is neither null nor undefined
FirstOwnValue(x) ==
    CASE x.t \in {"object", "array"} ->
            IF x.v = <<>> THEN Undefined
            ELSE IF x.t = "object" THEN x.v[1][2] ELSE x.v[1]
      [] x.t = "string" -> IF x.v = "" THEN Undefined ELSE Str(SubSeq(x.v, 1, 1))
      [] OTHER -> Undefined

(***************************************************************************)
(* validateCommandStructure(command): "valid" for true, "invalid" for      *)
(* false, "throws" when the call ends in a TypeError.  The conditions of   *)
(* the validators array are all evaluated when the array is built, before  *)
(* any of them is looked at.                                               *)
(***************************************************************************)
\* command.aliases.some(...) on a value that has no such method
ValidatorsThrow(command) ==
    Truthy(GetKey(command, "aliases")) /\ ~IsArray(GetKey(command, "aliases"))

ValidatorConditions(command) ==
    LET name == GetKey(command, "name")
        description == GetKey(command, "description")
        options == GetKey(command, "options")
        textExtract == GetKey(command, "textExtract")
        slashExtract == GetKey(command, "slashExtract")
        cooldown == GetKey(command, "cooldown")
        aliases == GetKey(command, "aliases")
        botPermissions == GetKey(command, "botPermissions")
        memberPermissions == GetKey(command, "memberPermissions")
        category == GetKey(command, "category")
    IN << ~Truthy(name) \/ TypeOf(name) # "string",
          ~Truthy(description) \/ TypeOf(description) # "string",
          Truthy(options) /\ ~IsArray(options),
          TypeOf(GetKey(command, "execute")) # "function",
          Truthy(textExtract) /\ TypeOf(textExtract) # "function",
          Truthy(slashExtract) /\ TypeOf(slashExtract) # "function",
          Truthy(cooldown) /\ (TypeOf(cooldown) # "number" \/ cooldown.v < 0),
          Truthy(aliases) /\ ~IsArray(aliases),
          Truthy(aliases) /\ \E i \in 1..Len(aliases.v) :
                                  TypeOf(aliases.v[i]) # "string",
          Truthy(botPermissions) /\ ~IsArray(botPermissions),
          Truthy(memberPermissions) /\ ~IsArray(memberPermissions),
          ~Truthy(category) \/ TypeOf(category) # "string" >>

\* the loop over command.options: the first entry that ends the call decides
RECURSIVE ValidateOptions(_)
ValidateOptions(options) ==
    IF options = <<>> THEN "valid"
    ELSE LET optionStruct == Head(options)
             option == FirstOwnValue(optionStruct)
         IN IF ~IsNotNullish(optionStruct) \/ ~IsNotNullish(option) THEN "throws"
            ELSE IF ~Truthy(GetKey(option, "name"))
                    \/ ~Truthy(GetKey(option, "description")) THEN "invalid"
            ELSE ValidateOptions(Tail(options))

validateCommandStructure(command) ==
    IF ~IsNotNullish(command) \/ ValidatorsThrow(command) THEN "throws"
    ELSE IF \E i \in 1..Len(ValidatorConditions(command)) :
                ValidatorConditions(command)[i] THEN "invalid"
    ELSE IF Truthy(GetKey(command, "options"))
         THEN ValidateOptions(GetKey(command, "options").v)
    ELSE "valid"

(***************************************************************************)
(* The files of the commands directory.  A file is [file, category,        *)
(* imports, module]: its name, the directory it lies in, whether           *)
(* import() of it succeeds, and the default export it yields.              *)
(***************************************************************************)
MaxFiles == 3

OptionStruct(kind, name, description) ==
    Obj(<< <<kind, Obj(<< <<"name", Str(name)>>, <<"description", Str(description)>>,
                          <<"required", Bool(FALSE)>> >>)>> >>)

\* commands/Misc/help.ts: aliases, one option, both extractors, async execute
HelpFile ==
    [file |-> "help.ts", category |-> "Misc", imports |-> TRUE,
     module |-> Obj(<< <<"name", Str("help")>>,
                       <<"aliases", Arr(<<Str("h"), Str("Halp")>>)>>,
                       <<"cooldown", Num(2)>>,
                       <<"description", Str("Shows help")>>,
                       <<"category", Str("Misc")>>,
                       <<"options", Arr(<<OptionStruct("string", "category",
                                                       "The category")>>)>>,
                       <<"textExtract", Fn("sync")>>,
                       <<"slashExtract", Fn("sync")>>,
                       <<"execute", Fn("async")>> >>)]

\* commands/Misc/info.ts: aliases, a text extractor only, async execute
InfoFile ==
    [file |-> "info.ts", category |-> "Misc", imports |-> TRUE,
     module |-> Obj(<< <<"name", Str("info")>>,
                       <<"description", Str("Shows statistics")>>,
                       <<"category", Str("Misc")>>,
                       <<"aliases", Arr(<<Str("botstats")>>)>>,
                       <<"textExtract", Fn("sync")>>,
                       <<"execute", Fn("async")>> >>)]

\* a command whose name has an upper-case letter, a slash extractor only
PingFile ==
    [file |-> "Ping.ts", category |-> "Fun", imports |-> TRUE,
     module |-> Obj(<< <<"name", Str("Ping")>>,
                       <<"description", Str("Pong")>>,
                       <<"category", Str("Fun")>>,
                       <<"aliases", Arr(<<Str("p")>>)>>,
                       <<"slashExtract", Fn("sync")>>,
                       <<"execute", Fn("sync")>> >>)]

\* a command named like an alias of help, no extractor
HFile ==
    [file |-> "h.ts", category |-> "Fun", imports |-> TRUE,
     module |-> Obj(<< <<"name", Str("h")>>,
                       <<"description", Str("Hug")>>,
                       <<"category", Str("Fun")>>,
                       <<"execute", Fn("sync")>> >>)]

\* a malformed definition: no description
BrokenFile ==
    [file |-> "broken.ts", category |-> "Fun", imports |-> TRUE,
     module |-> Obj(<< <<"name", Str("broken")>>,
                       <<"aliases", Arr(<<Str("b")>>)>>,
                       <<"category", Str("Fun")>>,
                       <<"execute", Fn("sync")>> >>)]

\* a file whose import throws
CrashFile ==
    [file |-> "crash.ts", category |-> "Misc", imports |-> FALSE,
     module |-> Undefined]

CommandFiles == {HelpFile, InfoFile, PingFile, HFile, BrokenFile, CrashFile}

\* what the commands directory may hold
Directories ==
    {d \in SUBSET CommandFiles : d # {} /\ Cardinality(d) <= MaxFiles}

(***************************************************************************)
(* What loadCommands does with one imported definition.                    *)
(***************************************************************************)
\* map.get(key): undefined when there is no such key
MapGet(map, key) == IF key \in DOMAIN map THEN map[key] ELSE Undefined

\* map.set(key, value)
MapSet(map, key, value) ==
    [k \in DOMAIN map \cup {key} |-> IF k = key THEN value ELSE map[k]]

\* commandDefinition.aliases.forEach(aliasName =>
\*     clientInstance.aliases.set(aliasName.toLowerCase(), commandDefinition.name))
RECURSIVE SetAliases(_, _, _)
SetAliases(aliases, aliasNames, name) ==
    IF aliasNames = <<>> THEN aliases
    ELSE SetAliases(MapSet(aliases, ToLowerCase(Head(aliasNames).v), name),
                    Tail(aliasNames), name)

\* the option list of a definition as buildSlashCommand reads it:
\* const [optionType, optionDetails] = Object.entries(commandOption)[0]
OptionEntry(commandOption) ==
    LET optionDetails == commandOption.v[1][2]
        required == GetKey(optionDetails, "required")
    IN [kind |-> commandOption.v[1][1],
        name |-> GetKey(optionDetails, "name").v,
        description |-> GetKey(optionDetails, "description").v,
        required |-> IF required = Bool(TRUE) THEN "true"
                     ELSE IF required = Bool(FALSE) THEN "false" ELSE "absent"]

\* the definition as buildSlashCommand(commandDefinition, categoryName) reads it
CommandDetails(commandDefinition, categoryName) ==
    [name |-> GetKey(commandDefinition, "name").v,
     description |-> GetKey(commandDefinition, "description").v,
     category |-> categoryName,
     options |-> IF IsArray(GetKey(commandDefinition, "options"))
                 THEN MapSeq(OptionEntry, GetKey(commandDefinition, "options").v)
                 ELSE <<>>]

\* for (const commandDefinition of categoryCommands)
\*     slashCommandsMap.set(commandDefinition.name.toLowerCase(), slashCommand)
RECURSIVE SetSlashCommands(_, _, _)
SetSlashCommands(map, definitions, categoryName) ==
    IF definitions = <<>> THEN map
    ELSE LET commandDetails == CommandDetails(Head(definitions), categoryName)
         IN SetSlashCommands(
                MapSet(map, ToLowerCase(commandDetails.name),
                       buildSlashCommand(commandDetails, categoryName)),
                Tail(definitions), categoryName)

(***************************************************************************)
(* The commandCreate handler (events/guild/commandCreate), bound to both   *)
(* messageCreate and interactionCreate.  An event is [kind, inGuild,       *)
(* content, guildPrefix, subcommand]: a message carries its content and    *)
(* the prefix of the guild's settings (undefined when it has none), an     *)
(* interaction the subcommand it names.                                    *)
(***************************************************************************)
DefaultPrefix == ">"
ClientUserId == "7"

MessageEvent(content, guildPrefix) ==
    [kind |-> "message", inGuild |-> TRUE, content |-> content,
     guildPrefix |-> guildPrefix, subcommand |-> ""]

InteractionEvent(subcommand) ==
    [kind |-> "interaction", inGuild |-> TRUE, content |-> "",
     guildPrefix |-> Undefined, subcommand |-> subcommand]

DirectMessageEvent(content) ==
    [kind |-> "message", inGuild |-> FALSE, content |-> content,
     guildPrefix |-> Undefined, subcommand |-> ""]

Contents ==
    {">help", "!help", ">HELP", ">h", ">Halp", ">info", ">botstats", ">Ping",
     ">ping", ">p", ">b", ">broken", ">nope", "?help", "help", ">help me",
     "<@7>help"}

\* an interactionCreate event that is no command: a button press, a select
\* menu, a modal (the event loader binds the router to interactionCreate)
ComponentInteractionEvent(inGuild) ==
    [kind |-> "component", inGuild |-> inGuild, content |-> "",
     guildPrefix |-> Undefined, subcommand |-> ""]

GuildPrefixes == {Undefined, Str("?")}

Events ==
    {MessageEvent(content, guildPrefix) :
        content \in Contents, guildPrefix \in GuildPrefixes}
    \cup {InteractionEvent(subcommand) : subcommand \in {"help", "info", "ping", "h"}}
    \cup {DirectMessageEvent(">help")}
    \cup {ComponentInteractionEvent(inGuild) : inGuild \in BOOLEAN}

\* interaction.content.split(" ") throws a TypeError when content is
\* undefined: an interaction that is not a CommandInteraction takes the
\* branch of a message and has no content
ContentSplitThrows(event) == event.kind = "component"

\* text.split(" ")[0]
RECURSIVE FirstToken(_)
FirstToken(text) ==
    IF text = "" \/ SubSeq(text, 1, 1) = " " THEN ""
    ELSE SubSeq(text, 1, 1) \o FirstToken(Tail(text))

\* text.slice(start) and text.slice(0, end)
SliceFrom(text, start) == SubSeq(text, start + 1, Len(text))
SliceTo(text, end) == SubSeq(text, 1, IF end < Len(text) THEN end ELSE Len(text))

StartsWith(text, start) == SliceTo(text, Len(start)) = start

\* new RegExp(`^(<@!?${client.user.id}>|${escapeString(prefix)})`).test(text)
PrefixRegexTest(prefix, text) ==
    \/ StartsWith(text, "<@" \o ClientUserId \o ">")
    \/ StartsWith(text, "<@!" \o ClientUserId \o ">")
    \/ StartsWith(text, prefix)

\* prefix, before prefix.toLowerCase()
PrefixOf(event) ==
    IF event.kind = "interaction" THEN "/"
    ELSE IF Truthy(event.guildPrefix) THEN event.guildPrefix.v ELSE DefaultPrefix

\* commandName, after commandName.toLowerCase()
CommandNameOf(event) ==
    ToLowerCase(IF event.kind = "interaction" THEN event.subcommand
                ELSE SliceFrom(FirstToken(event.content), Len(PrefixOf(event))))

\* givenPrefix: computed for a message and never read
GivenPrefixOf(event) ==
    IF event.kind = "interaction" THEN ""
    ELSE ToLowerCase(SliceTo(FirstToken(event.content), Len(PrefixOf(event))))

\* client.commands.get(commandName), else the command of the alias
FindCommand(commands, aliases, commandName) ==
    LET found == MapGet(commands, commandName)
        alias == MapGet(aliases, commandName)
    IN IF Truthy(alias) /\ ~Truthy(found) THEN MapGet(commands, alias.v) ELSE found

\* command.hasOwnProperty(key)
HasOwnProperty(o, key) == o.t = "object" /\ key \in SeqToSet(ObjectKeys(o))

\* what an extractor returns
Extracted(extractor) == Obj(<< <<"extractedBy", Str(extractor)>> >>)

\* the extractor the handler calls for the event, "" when it calls none
ExtractorCalled(event, foundCommand) ==
    IF event.kind = "interaction" /\ HasOwnProperty(foundCommand, "slashExtract")
    THEN (IF TypeOf(GetKey(foundCommand, "slashExtract")) = "function"
          THEN "slashExtract" ELSE "")
    ELSE IF HasOwnProperty(foundCommand, "textExtract")
    THEN (IF TypeOf(GetKey(foundCommand, "textExtract")) = "function"
          THEN "textExtract" ELSE "")
    ELSE ""

\* does a failure of command.execute(...) reach the catch of the handler?
\* the call is not awaited: a throw does, a rejected promise does not
ExecuteFailureIsCaught(execute) == execute.v = "sync"

\* no event
NoEvent ==
    [kind |-> "none", inGuild |-> FALSE, content |-> "", guildPrefix |-> Undefined,
     subcommand |-> ""]

NothingHandled ==
    [event |-> NoEvent, command |-> Undefined, extractor |-> "",
     optionData |-> Undefined, executed |-> FALSE, failed |-> FALSE,
     logged |-> FALSE, replied |-> FALSE, unhandled |-> FALSE]

\* the handler's run for an event, executeFails telling how execute ends
CommandCreateHandler(commands, aliases, event, executeFails) ==
    LET prefix == ToLowerCase(PrefixOf(event))
        foundCommand == FindCommand(commands, aliases, CommandNameOf(event))
        extractor == ExtractorCalled(event, foundCommand)
        caught == executeFails /\ ExecuteFailureIsCaught(GetKey(foundCommand, "execute"))
    IN IF ~event.inGuild THEN [NothingHandled EXCEPT !.event = event]
       ELSE IF ContentSplitThrows(event)
       THEN [NothingHandled EXCEPT !.event = event, !.unhandled = TRUE]
       ELSE IF ~Truthy(foundCommand) \/ ~PrefixRegexTest(prefix, prefix)
       THEN [NothingHandled EXCEPT !.event = event]
       ELSE [event |-> event, command |-> foundCommand, extractor |-> extractor,
             optionData |-> IF extractor = "" THEN Obj(<<>>) ELSE Extracted(extractor),
             executed |-> TRUE, failed |-> executeFails,
             logged |-> caught, replied |-> caught,
             unhandled |-> executeFails /\ ~caught]

(***************************************************************************)
(* State.                                                                  *)
(***************************************************************************)
VARIABLES
    enableGlobalSlashCommands, \* config.slashGlobal || false
    slashCommandsMap,          \* key -> builder, filled by loadCommands
    guilds,                    \* clientInstance.guilds.cache
    remote,                    \* scope -> the commands registered there
    pc,                        \* where the `ready` listener stands
    passes,                    \* number of `ready` passes started
    guildPromises,             \* the guilds whose commands.fetch() the pass called
    fetchFailed,               \* the guilds whose fetch rejected in this pass
    fulfilledGuildCommands,    \* the commands of the fulfilled guild fetches
    currentCommands,           \* the pass's currentCommands
    commandsToDelete,          \* the pass's plan
    commandsToUpdate,
    commandsToAdd,
    planned,                   \* the pass reached its plan
    inflight,                  \* remote operations issued and not settled
    issued,                    \* every operation the current pass has issued
    awaited,                   \* the operations the listener is waiting for
    failed,                    \* the operations that were rejected
    faults,                    \* number of rejections the platform did not have to make
    log,                       \* console.error entries about operations
    uncaught,                  \* rejections that no handler caught
    guildSets,                 \* guild -> bulk sets sent to it on guildCreate
    prevClean,                 \* the previous pass ran clean and is settled
    curClean                   \* nothing failed or changed since this pass began

\* the command loader and the commandCreate router
VARIABLES
    commandsDirectory,         \* the files of the commands directory
    pendingImports,            \* the files whose import has not settled yet
    categoryCommands,          \* category -> the definitions pushed so far
    clientCommands,            \* clientInstance.commands: name -> definition
    clientAliases,             \* clientInstance.aliases: alias -> name
    categoriesLoaded,          \* the categories whose slash commands are built
    loaderLog,                 \* console.warn / console.error entries of the loader
    handled                    \* what commandCreate did with the last event

\* validateCommandStructure applied to a command object
VARIABLES
    validatedCommand,          \* the object handed to validateCommandStructure
    verdict                    \* what the call did

\* deepNormalise applied to a value
VARIABLES
    normalisedObject,          \* the value handed to deepNormalise
    normalisedKeys,            \* the keysToKeep of the call
    normalisedHeap,            \* the objects the value refers to by identity
    normalised,                \* the result of the call, undefined before it
    normalisedAgain            \* the result of deepNormalise on that result

\* findDifferences applied to two values
VARIABLES
    candidateObject,           \* the newObject of the call
    baselineObject,            \* the existingObject of the call
    foundDifferences           \* the result of the call, NotCalled before it

\* findSlashChanges applied to a target and a remote command
VARIABLES
    localCommand,              \* the newCommand of the call, a builder
    remoteCommand,             \* the existingCommand of the call
    slashChanges,              \* the result with the deepNormalise of part_003
    slashChangesEarlier        \* the result with the deepNormalise of functions.ts

\* the options of a definition attached to its subcommand
VARIABLES
    definitionOptions,         \* commandDetails.options
    builtSubcommand,           \* what buildSubcommand of part_003 leaves
    builtSubcommandEarlier     \* what the option loop of part_002 leaves

\* the guild settings cache (handlers/botCache)
VARIABLES
    cacheVersion,              \* which of the two getCache the module has
    documents,                 \* botGuilds: guild -> its document, null if none
    guildCache,                \* the Map guild -> settings
    pendingCalls,              \* getCache and updateCache calls awaiting findOne
    returned,                  \* the getCache call that returned last: what
                               \* it returned (value), whether it read the
                               \* store, whether it filled the cache and
                               \* with what (stored)
    completedGuilds,           \* guilds with a completed getCache and no
                               \* removeCache or clearCache since
    invalidated,               \* guilds invalidated with no getCache
                               \* completed since
    staleEntries               \* guilds whose entry was filled from a read
                               \* made before their latest invalidation

\* the error log (logError of helpers/functions)
VARIABLES
    logVersion,                \* which logError the module has
    errorValue,                \* the error argument
    errorChannel,              \* what channels.cache holds for botErrorLogs
    logOutcome,                \* "none" until logError is over
    sendCalls,                 \* what channel.send was called with, in order
    pendingSends,              \* the sends whose promise is not settled yet
    channelMessages,           \* the messages that reached the channel
    unhandledRejections,       \* sends that rejected: nothing handles them
    consoleErrors              \* what console.error was called with

\* the scheduled backup job (main)
VARIABLES
    backupChannel,             \* what channels.cache holds for backupChannel
    clientUser,                \* whether client.user is set
    backupPc,                  \* where the job stands
    backupStep,                \* index of the collection or file in hand
    localFiles,                \* the files in the working directory
    nights,                    \* how often the job has fired
    backupFailure,             \* the step of this run that failed
    backupLogged,              \* failures given to logError in this run
    raisedToProcess            \* rejections of this run nothing handled

\* button pagination (handlePagination of helpers/functions)
VARIABLES
    embedCount,                \* embeds.length
    currentPage,               \* let currentPage
    collectorEnded,            \* whether `end` has been emitted
    presses,                   \* button presses so far
    deferring,                 \* collect handlers suspended at deferUpdate
    editQueue,                 \* message.edit calls not yet applied
    shownPage,                 \* the page the message shows
    shownControls,             \* the button row the message carries
    disabledShown,             \* whether the edit of `end` has been applied
    lastPress,                 \* the press handled last: page before, after
    handlerRejections          \* collect handlers that rejected

\* startup (main of index)
VARIABLES
    definitionFiles,           \* number of definition files on disk
    handlerStage,              \* handler -> how far its loading has come
    filesLeft,                 \* definition files not yet processed
    loginStage,                \* client.login: connecting, ready, failed
    readyListener,             \* whether the `ready` listener is installed
    readyEmitted,              \* whether `ready` has been emitted
    readyPasses                \* per pass started: the files then unprocessed

reconcileVars ==
    <<enableGlobalSlashCommands, slashCommandsMap, guilds, remote, pc, passes,
      guildPromises, fetchFailed, fulfilledGuildCommands, currentCommands,
      commandsToDelete, commandsToUpdate, commandsToAdd, planned, inflight,
      issued, awaited, failed, faults, log, uncaught, guildSets, prevClean,
      curClean>>

routerVars == <<commandsDirectory, pendingImports, categoryCommands, clientCommands,
                clientAliases, categoriesLoaded, loaderLog, handled>>
validateVars == <<validatedCommand, verdict>>
normaliseVars == <<normalisedObject, normalisedKeys, normalisedHeap, normalised,
                   normalisedAgain>>

diffVars == <<candidateObject, baselineObject, foundDifferences>>
changesVars == <<localCommand, remoteCommand, slashChanges, slashChangesEarlier>>
buildVars == <<definitionOptions, builtSubcommand, builtSubcommandEarlier>>
cacheVars == <<cacheVersion, documents, guildCache, pendingCalls, returned,
               completedGuilds, invalidated, staleEntries>>
logVars == <<logVersion, errorValue, errorChannel, logOutcome, sendCalls,
             pendingSends, channelMessages, unhandledRejections, consoleErrors>>
backupVars == <<backupChannel, clientUser, backupPc, backupStep, localFiles, nights, backupFailure, backupLogged, raisedToProcess>>
pageVars == <<embedCount, currentPage, collectorEnded, presses, deferring, editQueue, shownPage, shownControls, disabledShown, lastPress, handlerRejections>>
startupVars == <<definitionFiles, handlerStage, filesLeft, loginStage, readyListener, readyEmitted, readyPasses>>
auxVars == <<diffVars, changesVars, buildVars, cacheVars, logVars,
            backupVars,
            pageVars,
            startupVars>>

vars == <<reconcileVars, routerVars, validateVars, normaliseVars, auxVars>>

\* the loader has not run and no event has come
RouterUnused ==
    /\ commandsDirectory = {}
    /\ pendingImports = {}
    /\ categoryCommands = <<>>
    /\ clientCommands = <<>>
    /\ clientAliases = <<>>
    /\ categoriesLoaded = {}
    /\ loaderLog = {}
    /\ handled = NothingHandled

\* validateCommandStructure is not being called
ValidateUnused == validatedCommand = Undefined /\ verdict = "none"

\* deepNormalise is not being called
NormaliseUnused ==
    /\ normalisedObject = Undefined
    /\ normalisedKeys = NoKeysToKeep
    /\ normalisedHeap = EmptyHeap
    /\ normalised = Undefined
    /\ normalisedAgain = Undefined

\* findDifferences is not being called
NotCalled == [t |-> "none", v |-> "none"]

DiffUnused ==
    /\ candidateObject = Undefined
    /\ baselineObject = Undefined
    /\ foundDifferences = NotCalled

\* findSlashChanges is not being called
ChangesUnused ==
    /\ localCommand = Undefined
    /\ remoteCommand = Undefined
    /\ slashChanges = NotCalled
    /\ slashChangesEarlier = NotCalled

\* no subcommand is being built
BuildUnused ==
    /\ definitionOptions = <<>>
    /\ builtSubcommand = NotCalled
    /\ builtSubcommandEarlier = NotCalled

\* the cache module is not in use
CacheUnused ==
    /\ cacheVersion = "none"
    /\ documents = <<>>
    /\ guildCache = <<>>
    /\ pendingCalls = {}
    /\ returned = NotCalled
    /\ completedGuilds = {}
    /\ invalidated = {}
    /\ staleEntries = {}

\* logError is not being called
NoError == [kind |-> "none", stack |-> <<>>, text |-> <<>>]

LogUnused ==
    /\ logVersion = "none"
    /\ errorValue = NoError
    /\ errorChannel = "none"
    /\ logOutcome = "none"
    /\ sendCalls = <<>>
    /\ pendingSends = <<>>
    /\ channelMessages = <<>>
    /\ unhandledRejections = 0
    /\ consoleErrors = <<>>

\* the backup job is not scheduled
BackupUnused ==
    /\ backupChannel = "none"
    /\ clientUser = FALSE
    /\ backupPc = "none"
    /\ backupStep = 0
    /\ localFiles = {}
    /\ nights = 0
    /\ backupFailure = "none"
    /\ backupLogged = {}
    /\ raisedToProcess = {}

\* handlePagination is not running
PageUnused ==
    /\ embedCount = 0
    /\ currentPage = 0
    /\ collectorEnded = FALSE
    /\ presses = 0
    /\ deferring = {}
    /\ editQueue = <<>>
    /\ shownPage = 0
    /\ shownControls = "none"
    /\ disabledShown = FALSE
    /\ lastPress = NotCalled
    /\ handlerRejections = 0

\* main is not being run
StartupUnused ==
    /\ definitionFiles = 0
    /\ handlerStage = <<>>
    /\ filesLeft = 0
    /\ loginStage = "none"
    /\ readyListener = FALSE
    /\ readyEmitted = FALSE
    /\ readyPasses = <<>>

AuxUnused ==
    DiffUnused /\ ChangesUnused /\ BuildUnused /\ CacheUnused /\ LogUnused
        /\ BackupUnused
        /\ PageUnused
        /\ StartupUnused

configVars == <<enableGlobalSlashCommands, slashCommandsMap>>
planVars == <<currentCommands, commandsToDelete, commandsToUpdate, commandsToAdd>>

(***************************************************************************)
(* Commands a scope may hold when the bot starts: what an earlier run      *)
(* registered for a definition, an older version of it, or a command no    *)
(* file serves any more.                                                   *)
(***************************************************************************)
Registered(scope, definition) ==
    CreatedCommand(scope, BuilderToJSON(buildSlashCommand(definition,
                                                          definition.category)))

Outdated(command) ==
    [command EXCEPT !.options = <<[@[1] EXCEPT !.description = "Old text"]>>]

RetiredCommand(scope) ==
    [id |-> "id-old", guildId |-> scope, name |-> "old",
     description |-> "Old commands", options |-> <<>>]

MiscChoices(scope) ==
    {{}, {Registered(scope, HelpDefinition)},
     {Outdated(Registered(scope, HelpDefinition))}}
FunChoices(scope) == {{}, {Registered(scope, PingDefinition)}}

InitialGuild == 1

\* the scope the first guild's mode registers in when the bot starts
ActiveScope(global) == IF global THEN GlobalScope ELSE InitialGuild

Init ==
    /\ enableGlobalSlashCommands \in BOOLEAN
    /\ \E definitions \in LoadedChoices :
           slashCommandsMap = SlashCommandsMapOf(definitions)
    /\ guilds = {InitialGuild}
    /\ \E retired \in BOOLEAN :
          \E m \in MiscChoices(ActiveScope(enableGlobalSlashCommands)),
             f \in FunChoices(ActiveScope(enableGlobalSlashCommands)) :
           remote = [scope \in Scopes |->
                        IF scope \notin {GlobalScope, InitialGuild} THEN {}
                        ELSE (IF retired THEN {RetiredCommand(scope)} ELSE {})
                             \cup (IF scope = ActiveScope(enableGlobalSlashCommands)
                                   THEN m \cup f ELSE {})]
    /\ pc = "idle"
    /\ passes = 0
    /\ guildPromises = {}
    /\ fetchFailed = {}
    /\ fulfilledGuildCommands = EmptyCollection
    /\ currentCommands = EmptyCollection
    /\ commandsToDelete = EmptyCollection
    /\ commandsToUpdate = {}
    /\ commandsToAdd = {}
    /\ planned = FALSE
    /\ inflight = {}
    /\ issued = {}
    /\ awaited = {}
    /\ failed = {}
    /\ faults = 0
    /\ log = {}
    /\ uncaught = {}
    /\ guildSets = [g \in AllGuilds |-> <<>>]
    /\ prevClean = FALSE
    /\ curClean = FALSE
    /\ RouterUnused
    /\ ValidateUnused
    /\ NormaliseUnused
    /\ AuxUnused

(***************************************************************************)
(* clientInstance.on('ready', ...): the listener starts.  It checks        *)
(* clientInstance.application and calls commands.fetch() of every guild.   *)
(* `ready` comes once per login: a further pass is a restart or a new      *)
(* login, by when the requests sent before have settled.                   *)
(***************************************************************************)
Ready ==
    /\ pc \in {"idle", "done"}
    /\ inflight = {}
    /\ passes < MaxPasses
    /\ passes' = passes + 1
    /\ \E applicationAvailable \in BOOLEAN :
          /\ pc' = IF applicationAvailable THEN "fetchGuilds" ELSE "done"
          /\ guildPromises' = IF applicationAvailable THEN guilds ELSE {}
          /\ log' = IF applicationAvailable THEN {} ELSE {ApplicationUnavailable}
          /\ curClean' = applicationAvailable
    /\ prevClean' = (curClean /\ planned)
    /\ planned' = FALSE
    /\ fetchFailed' = {}
    /\ fulfilledGuildCommands' = EmptyCollection
    /\ currentCommands' = EmptyCollection
    /\ commandsToDelete' = EmptyCollection
    /\ commandsToUpdate' = {}
    /\ commandsToAdd' = {}
    /\ issued' = {}
    /\ awaited' = {}
    /\ failed' = {}
    /\ uncaught' = {}
    /\ UNCHANGED <<routerVars, validateVars, normaliseVars, auxVars, configVars, guilds, remote, inflight, faults, guildSets>>
(***************************************************************************)
(* The apply phases of the listener: deletions, then updates, then         *)
(* additions.  PhasesFrom(phase, ...) is what the listener does from the   *)
(* given phase on until it has to wait or is through: the operations it    *)
(* issues, the operations it then waits for and where it stands.           *)
(***************************************************************************)
PhasesFrom(phase, global, joined, toDelete, toUpdate, toAdd) ==
    LET deletes == DeleteOps(toDelete)
        edits == EditOps(toUpdate)
        creates == CreateOps(global, joined, toAdd)
        fromCreate ==
            IF creates # {} /\ AwaitsPhase("create", global)
            THEN [ops |-> creates, awaited |-> creates, pc |-> "adding"]
            ELSE [ops |-> creates, awaited |-> {}, pc |-> "done"]
        fromEdit ==
            IF edits # {} /\ AwaitsPhase("edit", global)
            THEN [ops |-> edits, awaited |-> edits, pc |-> "updating"]
            ELSE [fromCreate EXCEPT !.ops = edits \cup @]
        fromDelete ==
            IF deletes # {} /\ AwaitsPhase("delete", global)
            THEN [ops |-> deletes, awaited |-> deletes, pc |-> "deleting"]
            ELSE [fromEdit EXCEPT !.ops = deletes \cup @]
    IN CASE phase = "delete" -> fromDelete
         [] phase = "edit" -> fromEdit
         [] phase = "create" -> fromCreate
         [] OTHER -> [ops |-> {}, awaited |-> {}, pc |-> "done"]

\* the phase that follows the one the listener waits in
NextPhase(at) ==
    CASE at = "deleting" -> "edit"
      [] at = "updating" -> "create"
      [] OTHER -> "none"

(***************************************************************************)
(* await Promise.allSettled(guildPromises): every guild fetch has settled, *)
(* some of them rejected.  The listener then calls the global fetch.       *)
(***************************************************************************)
\* variant: one rejected fetch loses the results of all of them
FulfilledGuildCommands_AllOrNothing(promises, rejected, registered) ==
    IF rejected = {} THEN UNION {registered[g] : g \in promises} ELSE {}

\* the values of the fulfilled results of Promise.allSettled(guildPromises)
FulfilledGuildCommands(promises, rejected, registered) ==
    CollectionConcat(EmptyCollection, {registered[g] : g \in promises \ rejected})

GuildFetchesSettled ==
    /\ pc = "fetchGuilds"
    /\ \E rejected \in SUBSET guildPromises :
          /\ faults + Cardinality(rejected) <= MaxFailures
          /\ faults' = faults + Cardinality(rejected)
          /\ fetchFailed' = rejected
          /\ failed' = failed \cup {FetchOp(g) : g \in rejected}
          /\ fulfilledGuildCommands' =
                FulfilledGuildCommands(guildPromises, rejected, remote)
          /\ curClean' = (curClean /\ rejected = {})
          /\ prevClean' = (prevClean /\ rejected = {})
    /\ pc' = "fetchGlobal"
    /\ UNCHANGED <<routerVars, validateVars, normaliseVars, auxVars, configVars, guilds, remote, passes, guildPromises, planVars,
                   planned, inflight, issued, awaited, log, uncaught, guildSets>>

(***************************************************************************)
(* await clientInstance.application.commands.fetch() has settled.  When it *)
(* rejects the outer catch logs and the pass is over.  Otherwise the       *)
(* listener computes the plan and starts to apply it, up to its next wait. *)
(***************************************************************************)
GlobalFetchSettled ==
    /\ pc = "fetchGlobal"
    /\ \E fulfilled \in BOOLEAN :
          IF ~fulfilled
          THEN /\ faults < MaxFailures
               /\ faults' = faults + 1
               /\ pc' = "done"
               /\ failed' = failed \cup {FetchOp(GlobalScope)}
               /\ log' = log \cup {FetchOp(GlobalScope)}
               /\ curClean' = FALSE
               /\ prevClean' = FALSE
               /\ UNCHANGED <<planVars, planned, inflight, issued, awaited>>
          ELSE LET globalCommands == remote[GlobalScope]
                   current == CurrentCommands(enableGlobalSlashCommands, globalCommands,
                                              fulfilledGuildCommands)
                   toDelete == CommandsToDelete(enableGlobalSlashCommands,
                                                slashCommandsMap, globalCommands,
                                                fulfilledGuildCommands)
                   toUpdate == CommandsToUpdate(slashCommandsMap, current)
                   toAdd == CommandsToAdd(slashCommandsMap, current)
                   step == PhasesFrom("delete", enableGlobalSlashCommands, guilds,
                                      toDelete, toUpdate, toAdd)
               IN /\ currentCommands' = current
                  /\ commandsToDelete' = toDelete
                  /\ commandsToUpdate' = toUpdate
                  /\ commandsToAdd' = toAdd
                  /\ planned' = TRUE
                  /\ inflight' = inflight \cup step.ops
                  /\ issued' = issued \cup step.ops
                  /\ awaited' = step.awaited
                  /\ pc' = step.pc
                  /\ UNCHANGED <<failed, faults, log, curClean, prevClean>>
    /\ UNCHANGED <<routerVars, validateVars, normaliseVars, auxVars, configVars, guilds, remote, passes, guildPromises, fetchFailed,
                   fulfilledGuildCommands, uncaught, guildSets>>

(***************************************************************************)
(* The operations the listener waits for have all settled: it goes on with *)
(* the next phase, or is through after the additions.                      *)
(***************************************************************************)
PhaseSettled ==
    /\ pc \in {"deleting", "updating", "adding"}
    /\ awaited \cap inflight = {}
    /\ LET step == PhasesFrom(NextPhase(pc), enableGlobalSlashCommands, guilds,
                              commandsToDelete, commandsToUpdate, commandsToAdd)
       IN /\ inflight' = inflight \cup step.ops
          /\ issued' = issued \cup step.ops
          /\ awaited' = step.awaited
          /\ pc' = step.pc
    /\ UNCHANGED <<routerVars, validateVars, normaliseVars, auxVars, configVars, guilds, remote, passes, guildPromises, fetchFailed,
                   fulfilledGuildCommands, planVars, planned, failed, faults, log,
                   uncaught, guildSets, prevClean, curClean>>

(***************************************************************************)
(* A remote operation settles.  It can always be rejected; it is fulfilled *)
(* only when the platform can carry it out.                                *)
(***************************************************************************)
Named(commands, name) == {command \in commands : command.name = name}

\* the command sets a bulk set can leave: the platform refuses a payload
\* in which two commands have the same name
SetResults(scope, payloads) ==
    LET created == {CreatedCommand(scope, payload) : payload \in payloads}
    IN IF \A c \in created : Cardinality(Named(created, c.name)) = 1
       THEN {created} ELSE {}

\* the command sets of the scope after the operation is fulfilled
Fulfilments(op, commands) ==
    CASE op.kind = "delete" ->
            IF Named(commands, op.name) = {} THEN {}
            ELSE {commands \ Named(commands, op.name)}
      [] op.kind = "edit" ->
            IF Named(commands, op.name) = {} THEN {}
            ELSE {(commands \ Named(commands, op.name))
                  \cup {EditedCommand(c, op.payload) : c \in Named(commands, op.name)}}
      [] op.kind = "create" ->
            {(commands \ Named(commands, op.name))
             \cup {CreatedCommand(op.scope, op.payload)}}
      [] op.kind = "set" -> SetResults(op.scope, op.payload)
      [] OTHER -> {}

Fulfil(op) ==
    /\ \E after \in Fulfilments(op, remote[op.scope]) :
          remote' = [remote EXCEPT ![op.scope] = after]
    /\ UNCHANGED <<failed, faults, log, uncaught>>
    /\ curClean' = (curClean /\ op.kind # "set")
    /\ prevClean' = (prevClean /\ op.kind # "set")

Reject(op) ==
    /\ (Fulfilments(op, remote[op.scope]) = {} \/ faults < MaxFailures)
    /\ faults' = IF Fulfilments(op, remote[op.scope]) = {} THEN faults ELSE faults + 1
    /\ failed' = failed \cup {op}
    /\ log' = IF FailureIsCaught(op.kind) THEN log \cup {op} ELSE log
    /\ uncaught' = IF FailureIsCaught(op.kind) THEN uncaught ELSE uncaught \cup {op}
    /\ curClean' = FALSE
    /\ prevClean' = FALSE
    /\ UNCHANGED remote

Settle ==
    /\ \E op \in inflight :
          /\ inflight' = inflight \ {op}
          /\ \E fulfilled \in BOOLEAN : IF fulfilled THEN Fulfil(op) ELSE Reject(op)
    /\ UNCHANGED <<routerVars, validateVars, normaliseVars, auxVars, configVars, guilds, pc, passes, guildPromises, fetchFailed,
                   fulfilledGuildCommands, planVars, planned, issued, awaited,
                   guildSets>>

(***************************************************************************)
(* clientInstance.on('guildCreate', ...): a guild joins.  In server mode   *)
(* the listener sends one bulk set with every builder's JSON.              *)
(***************************************************************************)
\* variant: the listener does not look at enableGlobalSlashCommands
GuildCreateOps_AnyMode(global, guild, map) == {SetOp(guild, map)}

GuildCreateOps(global, guild, map) == IF global THEN {} ELSE {SetOp(guild, map)}

GuildCreate ==
    /\ \E guildInstance \in AllGuilds \ guilds :
          /\ guilds' = guilds \cup {guildInstance}
          /\ LET ops == GuildCreateOps(enableGlobalSlashCommands, guildInstance,
                                       slashCommandsMap)
             IN /\ inflight' = inflight \cup ops
                /\ guildSets' = [guildSets EXCEPT ![guildInstance] =
                                    @ \o (IF ops = {} THEN <<>> ELSE <<CHOOSE op \in ops : TRUE>>)]
    /\ curClean' = FALSE
    /\ prevClean' = FALSE
    /\ UNCHANGED <<routerVars, validateVars, normaliseVars, auxVars, configVars, remote, pc, passes, guildPromises, fetchFailed,
                   fulfilledGuildCommands, planVars, planned, issued, awaited,
                   failed, faults, log, uncaught>>

Next == Ready \/ GuildFetchesSettled \/ GlobalFetchSettled \/ PhaseSettled
        \/ Settle \/ GuildCreate

Spec == Init /\ [][Next]_vars
(***************************************************************************)
(* The command loader and the router on their own: loadCommands reads the  *)
(* commands directory file by file, and commandCreate events come while it *)
(* does and afterwards (main starts the handlers without waiting for them  *)
(* and logs in).  The `ready` listener is left out here.                   *)
(***************************************************************************)
ReconcileUnused ==
    /\ enableGlobalSlashCommands = FALSE
    /\ guilds = {}
    /\ remote = [scope \in Scopes |-> {}]
    /\ pc = "idle"
    /\ passes = 0
    /\ guildPromises = {}
    /\ fetchFailed = {}
    /\ fulfilledGuildCommands = EmptyCollection
    /\ currentCommands = EmptyCollection
    /\ commandsToDelete = EmptyCollection
    /\ commandsToUpdate = {}
    /\ commandsToAdd = {}
    /\ planned = FALSE
    /\ inflight = {}
    /\ issued = {}
    /\ awaited = {}
    /\ failed = {}
    /\ faults = 0
    /\ log = {}
    /\ uncaught = {}
    /\ guildSets = [g \in AllGuilds |-> <<>>]
    /\ prevClean = FALSE
    /\ curClean = FALSE

reconcileRest ==
    <<enableGlobalSlashCommands, guilds, remote, pc, passes, guildPromises,
      fetchFailed, fulfilledGuildCommands, currentCommands, commandsToDelete,
      commandsToUpdate, commandsToAdd, planned, inflight, issued, awaited, failed,
      faults, log, uncaught, guildSets, prevClean, curClean>>

RouterInit ==
    /\ ReconcileUnused
    /\ ValidateUnused
    /\ NormaliseUnused
    /\ AuxUnused
    /\ slashCommandsMap = <<>>
    /\ commandsDirectory \in Directories
    /\ pendingImports = commandsDirectory
    /\ categoryCommands = [c \in {f.category : f \in commandsDirectory} |-> <<>>]
    /\ clientCommands = <<>>
    /\ clientAliases = <<>>
    /\ categoriesLoaded = {}
    /\ loaderLog = {}
    /\ handled = NothingHandled

\* variant: the warning of an invalid definition is not followed by a return
FileOutcome_NoReturn(file) ==
    IF ~file.imports THEN "caught"
    ELSE CASE validateCommandStructure(file.module) = "throws" -> "caught"
           [] OTHER -> "registered"

\* how the body of fileProcessing ends for a file: "registered", "warned"
\* (console.warn and return) or "caught" (the catch of the file's try)
FileOutcome(file) ==
    IF ~file.imports THEN "caught"
    ELSE CASE validateCommandStructure(file.module) = "valid" -> "registered"
           [] validateCommandStructure(file.module) = "invalid" -> "warned"
           [] OTHER -> "caught"

\* the import of a file settles and the rest of fileProcessing runs for it
ImportSettled ==
    /\ \E file \in pendingImports :
          /\ pendingImports' = pendingImports \ {file}
          /\ IF FileOutcome(file) = "registered"
             THEN LET commandDefinition == file.module
                      name == GetKey(commandDefinition, "name").v
                      aliases == GetKey(commandDefinition, "aliases")
                  IN /\ clientCommands' = MapSet(clientCommands, name, commandDefinition)
                     /\ clientAliases' = IF Truthy(aliases)
                                         THEN SetAliases(clientAliases, aliases.v, Str(name))
                                         ELSE clientAliases
                     /\ categoryCommands' =
                            [categoryCommands EXCEPT
                                ![file.category] = Append(@, commandDefinition)]
                     /\ UNCHANGED loaderLog
             ELSE /\ loaderLog' = loaderLog \cup
                                     {[level |-> FileOutcome(file), file |-> file.file]}
                  /\ UNCHANGED <<clientCommands, clientAliases, categoryCommands>>
    /\ UNCHANGED <<reconcileVars, validateVars, normaliseVars, auxVars, commandsDirectory,
                   categoriesLoaded, handled>>

\* await Promise.all(fileProcessing) of a category is through: its slash
\* commands are built and set
CategoryLoaded ==
    /\ \E categoryName \in DOMAIN categoryCommands \ categoriesLoaded :
          /\ \A file \in pendingImports : file.category # categoryName
          /\ slashCommandsMap' = SetSlashCommands(slashCommandsMap,
                                                  categoryCommands[categoryName],
                                                  categoryName)
          /\ categoriesLoaded' = categoriesLoaded \cup {categoryName}
    /\ UNCHANGED <<reconcileRest, validateVars, normaliseVars, auxVars, commandsDirectory,
                   pendingImports, categoryCommands, clientCommands, clientAliases,
                   loaderLog, handled>>

\* a messageCreate or interactionCreate event: the handler runs
CommandCreate ==
    /\ \E event \in Events, executeFails \in BOOLEAN :
          handled' = CommandCreateHandler(clientCommands, clientAliases, event,
                                          executeFails)
    /\ UNCHANGED <<reconcileVars, validateVars, normaliseVars, auxVars, commandsDirectory,
                   pendingImports, categoryCommands, clientCommands, clientAliases,
                   categoriesLoaded, loaderLog>>

RouterNext == ImportSettled \/ CategoryLoaded \/ CommandCreate

RouterSpec == RouterInit /\ [][RouterNext]_vars
(***************************************************************************)
(* validateCommandStructure on its own: the call is made with a command    *)
(* object put together from the values a definition file may give to each  *)
(* field, a field being absent where the choice is undefined.              *)
(***************************************************************************)
OptionDetails(name, description) ==
    Obj(<< <<"name", name>>, <<"description", description>> >>)

NameChoices == {Undefined, Str(""), Str("ping"), Num(5)}
DescriptionChoices == {Undefined, Str(""), Str("Pong")}
ExecuteChoices == {Undefined, Fn("sync"), Str("run")}
OptionsChoices ==
    {Undefined, Str(""), Str("options"), Arr(<<>>),
     Arr(<<OptionStruct("string", "target", "Whom to ping")>>),
     Arr(<<Obj(<< <<"string", OptionDetails(Str("target"), Str("Whom to ping"))>>,
                  <<"user", OptionDetails(Str("other"), Undefined)>> >>)>>),
     Arr(<<Obj(<< <<"string", OptionDetails(Str("target"), Str(""))>> >>)>>),
     Arr(<<OptionStruct("string", "target", "Whom to ping"), Obj(<<>>)>>)}
ExtractChoices == {Undefined, Fn("sync"), Num(0), Str("extract")}
AliasesChoices == {Undefined, Arr(<<Str("p")>>), Str("p")}
CategoryChoices == {Undefined, Str("Fun")}

\* the object literal of a file: a field whose value is undefined is left out
RECURSIVE WithoutUndefined(_)
WithoutUndefined(entries) ==
    IF entries = <<>> THEN <<>>
    ELSE (IF Head(entries)[2] = Undefined THEN <<>> ELSE <<Head(entries)>>)
         \o WithoutUndefined(Tail(entries))

CommandObjects ==
    {Obj(WithoutUndefined(<< <<"name", name>>, <<"description", description>>,
                             <<"category", category>>, <<"aliases", aliases>>,
                             <<"options", options>>, <<"textExtract", textExtract>>,
                             <<"slashExtract", slashExtract>>,
                             <<"execute", execute>> >>)) :
        name \in NameChoices, description \in DescriptionChoices,
        category \in CategoryChoices, aliases \in AliasesChoices,
        options \in OptionsChoices, textExtract \in ExtractChoices,
        slashExtract \in ExtractChoices, execute \in ExecuteChoices}

ValidateInit ==
    /\ ReconcileUnused
    /\ slashCommandsMap = <<>>
    /\ RouterUnused
    /\ NormaliseUnused
    /\ AuxUnused
    /\ validatedCommand \in CommandObjects
    /\ verdict = "none"

\* validateCommandStructure(commandDefinition) is called
Validate ==
    /\ verdict = "none"
    /\ verdict' = validateCommandStructure(validatedCommand)
    /\ UNCHANGED <<reconcileVars, routerVars, normaliseVars, auxVars, validatedCommand>>

ValidateNext == Validate

ValidateSpec == ValidateInit /\ [][ValidateNext]_vars
(***************************************************************************)
(* deepNormalise on its own: the call is made with a value, a key filter   *)
(* and the default seen and isTopLevel, and then once more with its own    *)
(* result.  The values are built from leaves by wrapping them in arrays    *)
(* and objects up to MaxDepth times; a reference leads into one of a few   *)
(* heaps, in which objects are shared or lie on cycles.                    *)
(***************************************************************************)
MaxDepth == 2

Leaves == {Null, Undefined, Num(0), Arr(<<>>), Obj(<<>>), Ref(1), Ref(2)}

Wrap(x) ==
    {Arr(<<x>>), Arr(<<Null, x>>), Arr(<<Ref(1), x>>),
     Obj(<< <<"a", x>> >>), Obj(<< <<"a", x>>, <<"b", Num(0)>> >>),
     Obj(<< <<"a", Ref(1)>>, <<"b", x>> >>)}

RECURSIVE ValuesOfDepth(_)
ValuesOfDepth(depth) ==
    IF depth = 0 THEN Leaves
    ELSE Leaves \cup UNION {Wrap(x) : x \in ValuesOfDepth(depth - 1)}

Heaps ==
    {<<Obj(<< <<"k", Num(1)>> >>), Arr(<<>>)>>,
     <<Obj(<< <<"self", Ref(1)>> >>), Arr(<<Ref(1), Ref(2)>>)>>,
     <<Obj(<< <<"next", Ref(2)>> >>), Obj(<< <<"back", Ref(1)>>, <<"k", Num(1)>> >>)>>}

KeyFilters == {NoKeysToKeep, KeysToKeep({"a"}), KeysToKeep({})}

NormaliseInit ==
    /\ ReconcileUnused
    /\ slashCommandsMap = <<>>
    /\ RouterUnused
    /\ ValidateUnused
    /\ AuxUnused
    /\ normalisedObject \in ValuesOfDepth(MaxDepth)
    /\ normalisedKeys \in KeyFilters
    /\ normalisedHeap \in Heaps
    /\ normalised = Undefined
    /\ normalisedAgain = Undefined

\* deepNormalise(object, keysToKeep)
Normalise ==
    /\ normalised = Undefined
    /\ normalised' = deepNormalise(normalisedObject, normalisedKeys, {}, TRUE,
                                   normalisedHeap).val
    /\ UNCHANGED <<reconcileVars, routerVars, validateVars, auxVars, normalisedObject,
                   normalisedKeys, normalisedHeap, normalisedAgain>>

\* deepNormalise(deepNormalise(object, keysToKeep), keysToKeep)
NormaliseAgain ==
    /\ normalised # Undefined
    /\ normalisedAgain = Undefined
    /\ normalisedAgain' = deepNormalise(normalised, normalisedKeys, {}, TRUE,
                                        normalisedHeap).val
    /\ UNCHANGED <<reconcileVars, routerVars, validateVars, auxVars, normalisedObject,
                   normalisedKeys, normalisedHeap, normalised>>

NormaliseNext == Normalise \/ NormaliseAgain

NormaliseSpec == NormaliseInit /\ [][NormaliseNext]_vars
(***************************************************************************)
(* findDifferences on its own: the call is made with a candidate and a     *)
(* baseline, plain values built from leaves by wrapping them in arrays and *)
(* objects up to MaxDiffDepth times.                                       *)
(***************************************************************************)
MaxDiffDepth == 1

DiffLeaves == {Null, Undefined, Num(1), Num(2), NaN, Arr(<<>>), Obj(<<>>)}

DiffWrap(x) ==
    {Arr(<<x>>), Arr(<<Num(1), x>>),
     Obj(<< <<"a", x>> >>), Obj(<< <<"a", Num(1)>>, <<"b", x>> >>)}

RECURSIVE DiffValues(_)
DiffValues(depth) ==
    IF depth = 0 THEN DiffLeaves
    ELSE DiffLeaves \cup UNION {DiffWrap(x) : x \in DiffValues(depth - 1)}

DiffInit ==
    /\ ReconcileUnused
    /\ slashCommandsMap = <<>>
    /\ RouterUnused
    /\ ValidateUnused
    /\ NormaliseUnused
    /\ StartupUnused
    /\ PageUnused
    /\ BackupUnused
    /\ LogUnused
    /\ ChangesUnused
    /\ BuildUnused
    /\ CacheUnused
    /\ candidateObject \in DiffValues(MaxDiffDepth)
    /\ baselineObject \in DiffValues(MaxDiffDepth)
    /\ foundDifferences = NotCalled

\* findDifferences(newObject, existingObject)
FindDifferences ==
    /\ foundDifferences = NotCalled
    /\ foundDifferences' = findDifferences(candidateObject, baselineObject)
    /\ UNCHANGED <<reconcileVars, routerVars, validateVars, normaliseVars, startupVars, pageVars, backupVars, logVars,
                   changesVars, buildVars, cacheVars, candidateObject,
                   baselineObject>>

DiffNext == FindDifferences

DiffSpec == DiffInit /\ [][DiffNext]_vars

(***************************************************************************)
(* deepNormalise(object, keysToKeep, seen) as helpers/functions.ts has it: *)
(* the key filter is applied to the objects of every depth and arrays are  *)
(* filtered with Boolean.  findSlashChanges (helpers/command) imports      *)
(* deepNormalise from './functions'.                                       *)
(***************************************************************************)
RECURSIVE deepNormaliseEarlier(_, _, _, _)
RECURSIVE NormaliseItemsEarlier(_, _, _, _)
RECURSIVE NormaliseEntriesEarlier(_, _, _, _)

\* object.map(item => deepNormalise(item, keysToKeep, seen))
NormaliseItemsEarlier(items, keysToKeep, seen, heap) ==
    IF items = <<>> THEN [vals |-> <<>>, seen |-> seen]
    ELSE LET first == deepNormaliseEarlier(Head(items), keysToKeep, seen, heap)
             rest == NormaliseItemsEarlier(Tail(items), keysToKeep, first.seen, heap)
         IN [vals |-> <<first.val>> \o rest.vals, seen |-> rest.seen]

\* Object.entries(plainObject).reduce(...)
NormaliseEntriesEarlier(entries, keysToKeep, seen, heap) ==
    IF entries = <<>> THEN [entries |-> <<>>, seen |-> seen]
    ELSE LET key == Head(entries)[1]
             value == Head(entries)[2]
         IN IF ~keysToKeep.given \/ key \in keysToKeep.keys
            THEN LET normalisedValue == deepNormaliseEarlier(value, keysToKeep, seen, heap)
                     rest == NormaliseEntriesEarlier(Tail(entries), keysToKeep,
                                                     normalisedValue.seen, heap)
                 IN [entries |-> (IF IsNotNull(normalisedValue.val)
                                  THEN << <<key, normalisedValue.val>> >>
                                  ELSE <<>>) \o rest.entries,
                     seen |-> rest.seen]
            ELSE NormaliseEntriesEarlier(Tail(entries), keysToKeep, seen, heap)

deepNormaliseEarlier(object, keysToKeep, seen, heap) ==
    IF object.t \in {"null", "undefined"} THEN [val |-> Null, seen |-> seen]
    ELSE IF IsObjectType(object)
    THEN IF object.t = "ref" /\ object.v \in seen
         THEN [val |-> Null, seen |-> seen]
         ELSE LET seenNow == IF object.t = "ref" THEN seen \cup {object.v} ELSE seen
                  target == IF object.t = "ref" THEN heap[object.v] ELSE object
              IN IF target.t = "array"
                 THEN LET mapped == NormaliseItemsEarlier(target.v, keysToKeep,
                                                          seenNow, heap)
                          normalisedArray == SelectSeq(mapped.vals, Truthy)
                      IN [val |-> IF Len(normalisedArray) > 0
                                  THEN Arr(normalisedArray) ELSE Null,
                          seen |-> mapped.seen]
                 ELSE LET plainObject == PlainObject(target)
                          acc == NormaliseEntriesEarlier(plainObject.v, keysToKeep,
                                                         seenNow, heap)
                      IN [val |-> Obj(acc.entries), seen |-> acc.seen]
    ELSE [val |-> object, seen |-> seen]

\* findSlashChanges with that deepNormalise
findSlashChangesEarlier(newCommand, existingCommand) ==
    LET normalisedNew == deepNormaliseEarlier(newCommand, NoKeysToKeep, {},
                                              EmptyHeap).val
        normalisedExisting ==
            deepNormaliseEarlier(existingCommand,
                                 KeysToKeep(SeqToSet(ObjectKeys(normalisedNew))), {},
                                 EmptyHeap).val
    IN findDifferences(normalisedNew, normalisedExisting)

\* findSlashChanges with the deepNormalise of part_003, the existing
\* command being any object with or without a toJSON
FindSlashChangesOf(newCommand, existingCommand) ==
    LET normalisedNew == deepNormalise(newCommand, NoKeysToKeep, {}, TRUE,
                                       EmptyHeap).val
        normalisedExisting ==
            deepNormalise(existingCommand,
                          KeysToKeep(SeqToSet(ObjectKeys(normalisedNew))), {}, TRUE,
                          EmptyHeap).val
    IN findDifferences(normalisedNew, normalisedExisting)

(***************************************************************************)
(* findSlashChanges on its own: the call is made with the builder of a     *)
(* definition and a remote command, which is a command some scope holds    *)
(* or such a command with fields that only the platform sets on its        *)
(* subcommands and options.                                                *)
(***************************************************************************)
LocalTargets ==
    {Builder(buildSlashCommand(d, d.category)) : d \in DefinitionFiles}

RemoteCommands ==
    UNION {{Registered(scope, d), Outdated(Registered(scope, d))} :
               scope \in Scopes, d \in DefinitionFiles}
    \cup {RetiredCommand(scope) : scope \in Scopes}

\* the plain form of a remote command whose subcommands and options carry
\* a field of their own that no builder writes
RECURSIVE WithRemoteOnlyFields(_)
WithRemoteOnlyFields(json) ==
    Obj([i \in 1..Len(json.v) |->
            IF json.v[i][1] = "options" /\ json.v[i][2].t = "array"
            THEN <<"options",
                   Arr([j \in 1..Len(json.v[i][2].v) |->
                           Obj(WithRemoteOnlyFields(json.v[i][2].v[j]).v
                               \o << <<"autocomplete", Bool(FALSE)>> >>)])>>
            ELSE json.v[i]])

RemoteForms ==
    {AppCommand(c) : c \in RemoteCommands}
    \cup {WithRemoteOnlyFields(AppCommandToJSON(c)) : c \in RemoteCommands}

ChangesInit ==
    /\ ReconcileUnused
    /\ slashCommandsMap = <<>>
    /\ RouterUnused
    /\ ValidateUnused
    /\ NormaliseUnused
    /\ StartupUnused
    /\ PageUnused
    /\ BackupUnused
    /\ LogUnused
    /\ DiffUnused
    /\ BuildUnused
    /\ CacheUnused
    /\ localCommand \in LocalTargets
    /\ remoteCommand \in RemoteForms
    /\ slashChanges = NotCalled
    /\ slashChangesEarlier = NotCalled

\* findSlashChanges(slashCommand, existingCommand), helpers/functions as in part_003
FindSlashChanges ==
    /\ slashChanges = NotCalled
    /\ slashChanges' = FindSlashChangesOf(localCommand, remoteCommand)
    /\ UNCHANGED <<reconcileVars, routerVars, validateVars, normaliseVars, startupVars, pageVars, backupVars, logVars, diffVars,
                   buildVars, cacheVars, localCommand, remoteCommand,
                   slashChangesEarlier>>

\* findSlashChanges(slashCommand, existingCommand), helpers/functions.ts
FindSlashChangesEarlier ==
    /\ slashChangesEarlier = NotCalled
    /\ slashChangesEarlier' = findSlashChangesEarlier(localCommand, remoteCommand)
    /\ UNCHANGED <<reconcileVars, routerVars, validateVars, normaliseVars, startupVars, pageVars, backupVars, logVars, diffVars,
                   buildVars, cacheVars, localCommand, remoteCommand, slashChanges>>

ChangesNext == FindSlashChanges \/ FindSlashChangesEarlier

ChangesSpec == ChangesInit /\ [][ChangesNext]_vars

(***************************************************************************)
(* The options of a definition attached to a subcommand builder.  The      *)
(* builder is kept as [options, warnings, threw]: the options attached so  *)
(* far, the kinds console.warn was called for, and whether the loop was    *)
(* left by an exception.                                                   *)
(***************************************************************************)
MaxOptions == 2

NewSubcommand == [options |-> <<>>, warnings |-> <<>>, threw |-> FALSE]

\* optionBuilderMapping[optionType.toLowerCase()] of the object literal: one
\* of its own functions, a member it inherits from Object.prototype (the
\* only lower-case name of a callable one is "constructor"), or undefined
BuilderFunction(optionType) ==
    IF OptionBuilderMapping(ToLowerCase(optionType)) # 0 THEN "own"
    ELSE IF ToLowerCase(optionType) = "constructor" THEN "inherited"
    ELSE "undefined"

\* buildOption(optionType, optionDetails, subCommandBuilder): the methods of
\* the mapping are bound to the builder
buildOption(commandOption, subCommandBuilder) ==
    LET optionType == commandOption.v[1][1]
    IN CASE BuilderFunction(optionType) = "undefined" ->
               [subCommandBuilder EXCEPT !.warnings = Append(@, optionType)]
         [] BuilderFunction(optionType) = "own" ->
               [subCommandBuilder EXCEPT
                   !.options = Append(@, addOption(
                                   OptionBuilderMapping(ToLowerCase(optionType)),
                                   OptionEntry(commandOption)))]
         [] OTHER -> subCommandBuilder

\* the loop of buildSubcommand over commandDetails.options
RECURSIVE buildSubcommand(_, _)
buildSubcommand(options, subCommandBuilder) ==
    IF options = <<>> THEN subCommandBuilder
    ELSE LET commandOption == Head(options)
         IN IF commandOption.t = "object" /\ Len(commandOption.v) = 1
            THEN buildSubcommand(Tail(options),
                                 buildOption(commandOption, subCommandBuilder))
            ELSE buildSubcommand(Tail(options),
                                 [subCommandBuilder EXCEPT
                                     !.warnings = Append(@, "invalid structure")])

\* the option loop of buildSlashCommand in part_002: the mapping hands
\* builder.addStringOption and the like to addOption without binding them,
\* and a builder method called without its builder throws a TypeError
RECURSIVE OptionLoopEarlier(_, _)
OptionLoopEarlier(options, subcommandBuilder) ==
    IF options = <<>> THEN subcommandBuilder
    ELSE LET optionType == Head(options).v[1][1]
         IN CASE BuilderFunction(optionType) = "undefined" ->
                    OptionLoopEarlier(Tail(options),
                                      [subcommandBuilder EXCEPT
                                          !.warnings = Append(@, optionType)])
              [] BuilderFunction(optionType) = "own" ->
                    [subcommandBuilder EXCEPT !.threw = TRUE]
              [] OTHER -> OptionLoopEarlier(Tail(options), subcommandBuilder)

\* the option mappings a definition may list
OptionStructs ==
    {OptionStruct("string", "category", "The category"),
     OptionStruct("Integer", "page", "The page"),
     Obj(<< <<"user", Obj(<< <<"name", Str("member")>>,
                             <<"description", Str("The member")>>,
                             <<"required", Bool(TRUE)>> >>)>> >>),
     Obj(<< <<"boolean", Obj(<< <<"name", Str("silent")>>,
                                <<"description", Str("No reply")>> >>)>> >>),
     OptionStruct("text", "note", "A note"),
     OptionStruct("constructor", "made", "A maker")}

RECURSIVE OptionLists(_)
OptionLists(length) ==
    IF length = 0 THEN {<<>>}
    ELSE OptionLists(length - 1)
         \cup {Append(list, optionStruct) :
                  list \in OptionLists(length - 1), optionStruct \in OptionStructs}

BuildInit ==
    /\ ReconcileUnused
    /\ slashCommandsMap = <<>>
    /\ RouterUnused
    /\ ValidateUnused
    /\ NormaliseUnused
    /\ StartupUnused
    /\ PageUnused
    /\ BackupUnused
    /\ LogUnused
    /\ DiffUnused
    /\ ChangesUnused
    /\ CacheUnused
    /\ definitionOptions \in OptionLists(MaxOptions)
    /\ builtSubcommand = NotCalled
    /\ builtSubcommandEarlier = NotCalled

\* buildSubcommand(commandDetails), part_003
BuildSubcommand ==
    /\ builtSubcommand = NotCalled
    /\ builtSubcommand' = buildSubcommand(definitionOptions, NewSubcommand)
    /\ UNCHANGED <<reconcileVars, routerVars, validateVars, normaliseVars, startupVars, pageVars, backupVars, logVars, diffVars,
                   changesVars, cacheVars, definitionOptions, builtSubcommandEarlier>>

\* the callback of slashCommandBuilder.addSubcommand, part_002
BuildSubcommandEarlier ==
    /\ builtSubcommandEarlier = NotCalled
    /\ builtSubcommandEarlier' = OptionLoopEarlier(definitionOptions, NewSubcommand)
    /\ UNCHANGED <<reconcileVars, routerVars, validateVars, normaliseVars, startupVars, pageVars, backupVars, logVars, diffVars,
                   changesVars, cacheVars, definitionOptions, builtSubcommand>>

BuildNext == BuildSubcommand \/ BuildSubcommandEarlier

BuildSpec == BuildInit /\ [][BuildNext]_vars

(***************************************************************************)
(* The guild settings cache.  The module exists in two versions, which     *)
(* differ in getCache; a document of botGuilds is { _id, data }.  A call   *)
(* that awaits findOne is kept as                                          *)
(*   [op, guild, afterCompleted, retained, answer, stale]:                 *)
(* afterCompleted tells whether the call began when a getCache of the      *)
(* guild had completed and nothing had invalidated the guild since,        *)
(* retained what the Map held for the guild when the call began, answer    *)
(* what the store read for it (NotCalled until it has), and stale whether  *)
(* the guild was invalidated after that read.  The store reads the         *)
(* document at one moment and the call resumes at a later one: the event   *)
(* loop runs other handlers in between.                                    *)
(***************************************************************************)
MaxCacheGuilds == 1
MaxPendingCalls == 2

CacheGuilds == 1..MaxCacheGuilds

Settings(prefix) == Obj(<< <<"prefix", Str(prefix)>> >>)

Document(guild, data) == Obj(<< <<"_id", Num(guild)>>, <<"data", data>> >>)

\* what botGuilds may hold for a guild
DocumentChoices(guild) ==
    {Null, Document(guild, Null), Document(guild, Settings("!"))}

\* guildCache.delete(guild)
MapDelete(map, key) == [k \in DOMAIN map \ {key} |-> map[k]]

\* guildCache.get(guild) when the call began, "absent" if it had no entry
Retained(guild) ==
    IF guild \in DOMAIN guildCache THEN guildCache[guild] ELSE Str("absent")

CacheInit ==
    /\ ReconcileUnused
    /\ slashCommandsMap = <<>>
    /\ RouterUnused
    /\ ValidateUnused
    /\ NormaliseUnused
    /\ StartupUnused
    /\ PageUnused
    /\ BackupUnused
    /\ LogUnused
    /\ DiffUnused
    /\ ChangesUnused
    /\ BuildUnused
    /\ cacheVersion \in {"first", "second"}
    /\ documents \in [CacheGuilds -> UNION {DocumentChoices(g) : g \in CacheGuilds}]
    /\ \A g \in CacheGuilds : documents[g] \in DocumentChoices(g)
    /\ guildCache = <<>>
    /\ pendingCalls = {}
    /\ returned = NotCalled
    /\ completedGuilds = {}
    /\ invalidated = {}
    /\ staleEntries = {}

cacheRest == <<reconcileVars, routerVars, validateVars, normaliseVars, startupVars, pageVars, backupVars,
               logVars, diffVars, changesVars, buildVars, cacheVersion>>

PendingCall(op, guild) ==
    [op |-> op, guild |-> guild, afterCompleted |-> guild \in completedGuilds,
     retained |-> Retained(guild), answer |-> NotCalled, stale |-> FALSE]

\* getCache(guild, db) is called: a hit returns at once, a miss awaits findOne
GetCache ==
    /\ \E guild \in CacheGuilds :
          IF guild \in DOMAIN guildCache
          THEN /\ returned' = [guild |-> guild, value |-> guildCache[guild],
                               read |-> FALSE,
                               afterCompleted |-> guild \in completedGuilds,
                               retained |-> Retained(guild),
                               afterInvalidation |-> guild \in invalidated,
                               stale |-> guild \in staleEntries,
                               filled |-> FALSE, stored |-> guildCache[guild]]
               /\ completedGuilds' = completedGuilds \cup {guild}
               /\ invalidated' = invalidated \ {guild}
               /\ UNCHANGED pendingCalls
          ELSE /\ Cardinality(pendingCalls) < MaxPendingCalls
               /\ pendingCalls' = pendingCalls \cup {PendingCall("getCache", guild)}
               /\ UNCHANGED <<returned, completedGuilds, invalidated>>
    /\ UNCHANGED <<cacheRest, documents, guildCache, staleEntries>>

\* the store reads the document for a pending findOne
FindOneAnswered ==
    /\ \E call \in pendingCalls :
          /\ call.answer = NotCalled
          /\ pendingCalls' = (pendingCalls \ {call}) \cup
                 {[call EXCEPT !.answer = documents[call.guild]]}
    /\ UNCHANGED <<cacheRest, documents, guildCache, returned, completedGuilds,
                   invalidated, staleEntries>>

\* what the rest of getCache stores and returns once findOne has answered
\* with data, [stores, stored, value]: the first getCache of the module
AfterFindOneFirst(data) ==
    LET given == IF data # Null THEN GetKey(data, "data") ELSE data
    IN [stores |-> TRUE, stored |-> given, value |-> given]

\* the same of the second getCache
AfterFindOneSecond(data) ==
    [stores |-> data # Null /\ GetKey(data, "data") # Null,
     stored |-> GetKey(data, "data"), value |-> data]

AfterFindOne(version, data) ==
    IF version = "first" THEN AfterFindOneFirst(data) ELSE AfterFindOneSecond(data)

\* the entries known to come from a read older than an invalidation, once
\* a call has or has not stored for its guild
StaleAfter(stores, call) ==
    IF ~stores THEN staleEntries
    ELSE IF call.stale THEN staleEntries \cup {call.guild}
    ELSE staleEntries \ {call.guild}

\* a getCache call resumes with the answer of findOne and returns
GetCacheSettled ==
    /\ \E call \in pendingCalls :
          /\ call.op = "getCache"
          /\ call.answer # NotCalled
          /\ LET rest == AfterFindOne(cacheVersion, call.answer)
             IN /\ guildCache' = IF rest.stores
                                  THEN MapSet(guildCache, call.guild, rest.stored)
                                  ELSE guildCache
                /\ returned' = [guild |-> call.guild, value |-> rest.value,
                                read |-> TRUE,
                                afterCompleted |-> call.afterCompleted,
                                retained |-> call.retained,
                                afterInvalidation |-> call.guild \in invalidated,
                                stale |-> call.stale,
                                filled |-> rest.stores, stored |-> rest.stored]
                /\ staleEntries' = StaleAfter(rest.stores, call)
          /\ completedGuilds' = completedGuilds \cup {call.guild}
          /\ invalidated' = invalidated \ {call.guild}
          /\ pendingCalls' = pendingCalls \ {call}
    /\ UNCHANGED <<cacheRest, documents>>

\* the findOne of a call rejects: the call rejects and stores nothing
FindOneRejected ==
    /\ \E call \in pendingCalls :
          /\ call.answer = NotCalled
          /\ pendingCalls' = pendingCalls \ {call}
    /\ UNCHANGED <<cacheRest, documents, guildCache, returned, completedGuilds,
                   invalidated, staleEntries>>

\* the pending calls once the guilds have been invalidated: an answer that
\* was read before is older than the invalidation
MarkStale(gone) ==
    {[call EXCEPT !.stale = call.stale \/
                      (call.guild \in gone /\ call.answer # NotCalled)] :
        call \in pendingCalls}

\* removeCache(guild)
RemoveCache ==
    /\ \E guild \in CacheGuilds :
          /\ guildCache' = MapDelete(guildCache, guild)
          /\ completedGuilds' = completedGuilds \ {guild}
          /\ invalidated' = invalidated \cup {guild}
          /\ staleEntries' = staleEntries \ {guild}
          /\ pendingCalls' = MarkStale({guild})
    /\ UNCHANGED <<cacheRest, documents, returned>>

\* clearCache()
ClearCache ==
    /\ guildCache' = <<>>
    /\ completedGuilds' = {}
    /\ invalidated' = CacheGuilds
    /\ staleEntries' = {}
    /\ pendingCalls' = MarkStale(CacheGuilds)
    /\ UNCHANGED <<cacheRest, documents, returned>>

\* updateCache(guild, db) is called
UpdateCache ==
    /\ Cardinality(pendingCalls) < MaxPendingCalls
    /\ \E guild \in CacheGuilds :
          pendingCalls' = pendingCalls \cup
              {[PendingCall("updateCache", guild) EXCEPT
                   !.afterCompleted = FALSE, !.retained = Str("absent")]}
    /\ UNCHANGED <<cacheRest, documents, guildCache, returned, completedGuilds,
                   invalidated, staleEntries>>

\* an updateCache call resumes with the answer of findOne
UpdateCacheSettled ==
    /\ \E call \in pendingCalls :
          /\ call.op = "updateCache"
          /\ call.answer # NotCalled
          /\ guildCache' = IF IsNotNullish(call.answer)
                           THEN MapSet(guildCache, call.guild,
                                       GetKey(call.answer, "data"))
                           ELSE guildCache
          /\ staleEntries' = StaleAfter(IsNotNullish(call.answer), call)
          /\ pendingCalls' = pendingCalls \ {call}
    /\ UNCHANGED <<cacheRest, documents, returned, completedGuilds, invalidated>>

\* the document of a guild is written, replaced or deleted in the store
DocumentWritten ==
    /\ \E guild \in CacheGuilds :
        \E document \in DocumentChoices(guild) :
          /\ document # documents[guild]
          /\ documents' = [documents EXCEPT ![guild] = document]
    /\ UNCHANGED <<cacheRest, guildCache, pendingCalls, returned, completedGuilds,
                   invalidated, staleEntries>>

CacheNext ==
    \/ GetCache
    \/ FindOneAnswered
    \/ GetCacheSettled
    \/ FindOneRejected
    \/ RemoveCache
    \/ ClearCache
    \/ UpdateCache
    \/ UpdateCacheSettled
    \/ DocumentWritten

CacheSpec == CacheInit /\ [][CacheNext]_vars

(***************************************************************************)
(* logError(client, error) of helpers/functions.  A text is the sequence   *)
(* of its characters.  The error argument is [kind, stack, text]: a        *)
(* String has its characters in text; an Error has its message in text and *)
(* its stack in stack, the empty sequence when the stack is undefined or   *)
(* empty (both are falsy).  An array is [length, items]: items holds the   *)
(* elements that were assigned, so `new Array(n)` has n holes and no item. *)
(* "current" is the logError of the newer helpers/functions, "earlier" the *)
(* one of helpers/functions.ts and handlers/helperFunctions.ts.            *)
(***************************************************************************)
SIZE_RESTRICTION == 1990
MaxChunks == 2

Char(i) == IF i % 3 = 0 THEN "a" ELSE IF i % 3 = 1 THEN "b" ELSE "c"
Text(length) == [i \in 1..length |-> Char(i)]

TextLengths ==
    {0, 1} \cup UNION {{k * SIZE_RESTRICTION - 1, k * SIZE_RESTRICTION,
                        k * SIZE_RESTRICTION + 1} : k \in 1..MaxChunks}

StringValue(text) == [kind |-> "String", stack |-> <<>>, text |-> text]
ErrorObject(stack, message) == [kind |-> "Error", stack |-> stack, text |-> message]

ErrorValues ==
    UNION {{StringValue(Text(n)), ErrorObject(Text(n), Text(1)),
            ErrorObject(<<>>, Text(n))} : n \in TextLengths}

\* if (error instanceof Error) error = error.stack || error.message
ErrorText(error) ==
    IF error.kind = "Error" /\ Len(error.stack) > 0 THEN error.stack ELSE error.text

\* error.substring(start, end), for 0 <= start <= end
substring(text, start, end) ==
    SubSeq(text, start + 1, IF end < Len(text) THEN end ELSE Len(text))

\* Math.ceil(a / b) for a >= 0 and b > 0
MathCeil(a, b) == (a + b - 1) \div b

\* new Array(length): a RangeError unless length is a whole number
NewArray(length) == [length |-> length, items |-> <<>>]

\* the try block up to the channel lookup, [threw, array], of the current
\* logError
splitMessagesCurrent(text) ==
    LET arrayLength == MathCeil(Len(text), SIZE_RESTRICTION)
    IN [threw |-> FALSE,
        array |-> [NewArray(arrayLength) EXCEPT
            !.items = [i \in 1..arrayLength |->
                          substring(text, (i - 1) * SIZE_RESTRICTION,
                                    i * SIZE_RESTRICTION)]]]

\* the same of the earlier logError: new Array(error.length / SIZE_RESTRICTION)
\* throws unless the quotient is whole, and forEach skips the holes of the
\* array it made, so that no index is ever assigned
splitMessagesEarlier(text) ==
    IF Len(text) % SIZE_RESTRICTION # 0
    THEN [threw |-> TRUE, array |-> NewArray(0)]
    ELSE [threw |-> FALSE, array |-> NewArray(Len(text) \div SIZE_RESTRICTION)]

splitMessages(version, text) ==
    IF version = "current" THEN splitMessagesCurrent(text)
    ELSE splitMessagesEarlier(text)

\* (a backtick and a line feed are written by name)
Fence(message) ==
    <<"backtick", "backtick", "backtick", "linefeed">> \o message
        \o <<"linefeed", "backtick", "backtick", "backtick">>

ConsoleLine(label, error, text) == [label |-> label, error |-> error, text |-> text]

LogInit ==
    /\ ReconcileUnused
    /\ slashCommandsMap = <<>>
    /\ RouterUnused
    /\ ValidateUnused
    /\ NormaliseUnused
    /\ StartupUnused
    /\ PageUnused
    /\ BackupUnused
    /\ DiffUnused
    /\ ChangesUnused
    /\ BuildUnused
    /\ CacheUnused
    /\ logVersion \in {"current", "earlier"}
    /\ errorValue \in ErrorValues
    /\ errorChannel \in {"missing", "notSendable", "sendable"}
    /\ logOutcome = "none"
    /\ sendCalls = <<>>
    /\ pendingSends = <<>>
    /\ channelMessages = <<>>
    /\ unhandledRejections = 0
    /\ consoleErrors = <<>>

logRest == <<reconcileVars, routerVars, validateVars, normaliseVars, startupVars, pageVars, backupVars, diffVars,
             changesVars, buildVars, cacheVars, logVersion, errorValue,
             errorChannel>>

\* logError(client, error)
LogError ==
    /\ logOutcome = "none"
    /\ LET text == ErrorText(errorValue)
           split == splitMessages(logVersion, text)
           sendable == errorChannel = "sendable"
           sent == [i \in DOMAIN split.array.items |-> Fence(split.array.items[i])]
       IN /\ sendCalls' = IF ~split.threw /\ sendable THEN sent ELSE <<>>
          /\ pendingSends' = sendCalls'
          /\ consoleErrors' =
                IF split.threw
                THEN <<ConsoleLine("Error logging error: ", "RangeError", <<>>),
                       ConsoleLine("Error being logged: ", "", text)>>
                ELSE IF ~sendable
                THEN <<ConsoleLine("Error logging error: ", "Error", <<>>),
                       ConsoleLine("Error being logged: ", "", text)>>
                ELSE <<>>
    /\ logOutcome' = "returned"
    /\ UNCHANGED <<logRest, channelMessages, unhandledRejections>>

\* the oldest pending send reaches the channel
SendDelivered ==
    /\ pendingSends # <<>>
    /\ channelMessages' = Append(channelMessages, Head(pendingSends))
    /\ pendingSends' = Tail(pendingSends)
    /\ UNCHANGED <<logRest, logOutcome, sendCalls, unhandledRejections, consoleErrors>>

\* the oldest pending send rejects: logError awaited nothing
SendRejected ==
    /\ pendingSends # <<>>
    /\ unhandledRejections' = unhandledRejections + 1
    /\ pendingSends' = Tail(pendingSends)
    /\ UNCHANGED <<logRest, logOutcome, sendCalls, channelMessages, consoleErrors>>

LogNext == LogError \/ SendDelivered \/ SendRejected

LogSpec == LogInit /\ [][LogNext]_vars

(***************************************************************************)
(* The scheduled backup job of main (index): the callback given to         *)
(* cron.schedule with backupCollections and removeFiles.  The callback is  *)
(* async and so is the callback given to exec: a rejection inside either   *)
(* rejects a promise that nothing awaits, which reaches the process as an  *)
(* unhandledRejection.  Each await is a step; the outcome of the store,    *)
(* of tar, of channel.send and of fs.unlink is chosen at the step.         *)
(***************************************************************************)
MaxNights == 2

CollectionNames == <<"BOT_GUILDS", "BOT_USERS", "BLACKLIST">>
Snapshot(name) == name \o ".json"
Archive == "files.tar.gz"

\* the argument of removeFiles
FilesToRemove ==
    <<Archive, Snapshot(CollectionNames[1]), Snapshot(CollectionNames[2]),
      Snapshot(CollectionNames[3])>>

\* channel && channel.isTextBased() && channel.isSendable() && client.user
CanUpload == backupChannel = "sendable" /\ clientUser

BackupInit ==
    /\ ReconcileUnused
    /\ slashCommandsMap = <<>>
    /\ RouterUnused
    /\ ValidateUnused
    /\ NormaliseUnused
    /\ StartupUnused
    /\ PageUnused
    /\ DiffUnused
    /\ ChangesUnused
    /\ BuildUnused
    /\ CacheUnused
    /\ LogUnused
    /\ backupChannel \in {"missing", "notSendable", "sendable"}
    /\ clientUser \in BOOLEAN
    /\ backupPc = "idle"
    /\ backupStep = 0
    /\ localFiles = {}
    /\ nights = 0
    /\ backupFailure = "none"
    /\ backupLogged = {}
    /\ raisedToProcess = {}

backupRest == <<reconcileVars, routerVars, validateVars, normaliseVars, startupVars, pageVars, diffVars,
                changesVars, buildVars, cacheVars, logVars, backupChannel,
                clientUser>>

\* 23:59: the callback starts, clearCache() and backupCollections is awaited
CronFires ==
    /\ backupPc \in {"idle", "done"}
    /\ nights < MaxNights
    /\ nights' = nights + 1
    /\ backupPc' = "snapshots"
    /\ backupStep' = 1
    /\ backupFailure' = "none"
    /\ backupLogged' = {}
    /\ raisedToProcess' = {}
    /\ UNCHANGED <<backupRest, localFiles>>

\* after the last snapshot: exec("tar -czvf files.tar.gz ../src", callback)
\* is called and the cron callback returns
AfterSnapshot(step) == IF step = Len(CollectionNames) THEN "archive" ELSE "snapshots"

\* backupCollections: find(...).toArray() and fs.writeFile of one collection
SnapshotWritten ==
    /\ backupPc = "snapshots"
    /\ localFiles' = localFiles \cup {Snapshot(CollectionNames[backupStep])}
    /\ backupPc' = AfterSnapshot(backupStep)
    /\ backupStep' = IF backupStep = Len(CollectionNames) THEN 0 ELSE backupStep + 1
    /\ UNCHANGED <<backupRest, nights, backupFailure, backupLogged, raisedToProcess>>

\* the store or writeFile rejects: backupCollections and the cron callback
\* reject
SnapshotFailed ==
    /\ backupPc = "snapshots"
    /\ backupPc' = "done"
    /\ backupStep' = 0
    /\ backupFailure' = "snapshot"
    /\ raisedToProcess' = raisedToProcess \cup {"snapshot"}
    /\ UNCHANGED <<backupRest, nights, localFiles, backupLogged>>

\* what follows the upload branch of the exec callback
AfterArchive == IF CanUpload THEN "upload" ELSE "remove"

\* tar ends well: the exec callback runs with error null
ArchiveCreated ==
    /\ backupPc = "archive"
    /\ localFiles' = localFiles \cup {Archive}
    /\ backupPc' = AfterArchive
    /\ backupStep' = IF CanUpload THEN 0 ELSE 1
    /\ UNCHANGED <<backupRest, nights, backupFailure, backupLogged, raisedToProcess>>

\* what the exec callback does with an error after logError
OnArchiveError == [pc |-> "done", step |-> 0]

\* tar fails: if (error) return logError(client, 'Error creating backup: ...');
\* tar may or may not have left a partial archive
ArchiveFailed ==
    /\ backupPc = "archive"
    /\ \E partial \in BOOLEAN :
          localFiles' = IF partial THEN localFiles \cup {Archive} ELSE localFiles
    /\ backupLogged' = backupLogged \cup {"archive"}
    /\ backupFailure' = "archive"
    /\ backupPc' = OnArchiveError.pc
    /\ backupStep' = OnArchiveError.step
    /\ UNCHANGED <<backupRest, nights, raisedToProcess>>

\* await channel.send({content, files}) resolves
UploadDone ==
    /\ backupPc = "upload"
    /\ backupPc' = "remove"
    /\ backupStep' = 1
    /\ UNCHANGED <<backupRest, nights, localFiles, backupFailure, backupLogged,
                   raisedToProcess>>

\* what the exec callback does when channel.send rejects: the await throws
\* inside the async callback, whose promise nothing awaits
OnUploadError == [pc |-> "done", step |-> 0, logged |-> {}, raised |-> {"upload"}]

UploadFailed ==
    /\ backupPc = "upload"
    /\ backupFailure' = "upload"
    /\ backupPc' = OnUploadError.pc
    /\ backupStep' = OnUploadError.step
    /\ backupLogged' = backupLogged \cup OnUploadError.logged
    /\ raisedToProcess' = raisedToProcess \cup OnUploadError.raised
    /\ UNCHANGED <<backupRest, nights, localFiles>>

\* removeFiles: await fs.unlink(fileName) of one file
FileRemoved ==
    /\ backupPc = "remove"
    /\ FilesToRemove[backupStep] \in localFiles
    /\ localFiles' = localFiles \ {FilesToRemove[backupStep]}
    /\ backupPc' = IF backupStep = Len(FilesToRemove) THEN "done" ELSE "remove"
    /\ backupStep' = IF backupStep = Len(FilesToRemove) THEN 0 ELSE backupStep + 1
    /\ UNCHANGED <<backupRest, nights, backupFailure, backupLogged, raisedToProcess>>

\* fs.unlink rejects (the file is missing or cannot be removed): removeFiles
\* and the exec callback reject
UnlinkFailed ==
    /\ backupPc = "remove"
    /\ backupPc' = "done"
    /\ backupStep' = 0
    /\ backupFailure' = "unlink"
    /\ raisedToProcess' = raisedToProcess \cup {"unlink"}
    /\ UNCHANGED <<backupRest, nights, localFiles, backupLogged>>

BackupNext ==
    \/ CronFires
    \/ SnapshotWritten
    \/ SnapshotFailed
    \/ ArchiveCreated
    \/ ArchiveFailed
    \/ UploadDone
    \/ UploadFailed
    \/ FileRemoved
    \/ UnlinkFailed

BackupSpec == BackupInit /\ [][BackupNext]_vars

(***************************************************************************)
(* handlePagination(interaction, userId, embeds) of helpers/functions      *)
(* after the reply has been sent: the collector with its `collect` and     *)
(* `end` listeners.  A collect handler is suspended twice, at              *)
(* `await btnInteraction.deferUpdate()` and at `await message.edit(...)`;  *)
(* the `end` listener calls message.edit and awaits nothing.  The edits of *)
(* one message go through one request queue and are applied in the order   *)
(* in which they were issued.                                              *)
(***************************************************************************)
MaxEmbeds == 3
MaxPresses == 2

Buttons == {"backskip", "back", "next", "nextskip"}
Invoker == "invoker"
Users == {Invoker, "other"}

\* filter: (i) => i.user.id === userId
CollectorFilter(user) == user = Invoker

\* the switch on btnInteraction.customId
PageAfter_NoWrap(customId, page, length) ==
    CASE customId = "back" -> IF page > 0 THEN page - 1 ELSE length - 1
      [] customId = "next" -> page + 1
      [] customId = "backskip" -> 0
      [] customId = "nextskip" -> length - 1
      [] OTHER -> page

PageAfter(customId, page, length) ==
    CASE customId = "back" -> IF page > 0 THEN page - 1 ELSE length - 1
      [] customId = "next" -> IF page < length - 1 THEN page + 1 ELSE 0
      [] customId = "backskip" -> 0
      [] customId = "nextskip" -> length - 1
      [] OTHER -> page

\* message.edit({ embeds: [updateEmbed(page)], components: [controls] })
MessageEdit(page, controls, by) == [page |-> page, controls |-> controls, by |-> by]

PageInit ==
    /\ ReconcileUnused
    /\ slashCommandsMap = <<>>
    /\ RouterUnused
    /\ ValidateUnused
    /\ NormaliseUnused
    /\ StartupUnused
    /\ DiffUnused
    /\ ChangesUnused
    /\ BuildUnused
    /\ CacheUnused
    /\ LogUnused
    /\ BackupUnused
    /\ embedCount \in 1..MaxEmbeds
    /\ currentPage = 0
    /\ collectorEnded = FALSE
    /\ presses = 0
    /\ deferring = {}
    /\ editQueue = <<>>
    /\ shownPage = 0
    /\ shownControls = "active"
    /\ disabledShown = FALSE
    /\ lastPress = NotCalled
    /\ handlerRejections = 0

pageRest == <<reconcileVars, routerVars, validateVars, normaliseVars, startupVars, diffVars,
              changesVars, buildVars, cacheVars, logVars, backupVars, embedCount>>

\* a button of the message is pressed while the collector runs: the filter
\* decides whether `collect` is emitted
ButtonPressed ==
    /\ ~collectorEnded
    /\ presses < MaxPresses
    /\ presses' = presses + 1
    /\ \E customId \in Buttons, user \in Users :
          deferring' = IF CollectorFilter(user)
                       THEN deferring \cup {[id |-> presses + 1, customId |-> customId,
                                             user |-> user]}
                       ELSE deferring
    /\ UNCHANGED <<pageRest, currentPage, collectorEnded, editQueue, shownPage,
                   shownControls, disabledShown, lastPress, handlerRejections>>

\* deferUpdate resolves: the handler runs the switch and calls message.edit
\* with buttonsActive
DeferUpdateResolved ==
    /\ \E handler \in deferring :
          LET page == PageAfter(handler.customId, currentPage, embedCount)
          IN /\ currentPage' = page
             /\ editQueue' = Append(editQueue, MessageEdit(page, "active", "collect"))
             /\ lastPress' = [customId |-> handler.customId, user |-> handler.user,
                              before |-> currentPage, after |-> page]
             /\ deferring' = deferring \ {handler}
    /\ UNCHANGED <<pageRest, collectorEnded, presses, shownPage, shownControls,
                   disabledShown, handlerRejections>>

\* deferUpdate rejects: the handler rejects, nothing awaits it
DeferUpdateRejected ==
    /\ \E handler \in deferring : deferring' = deferring \ {handler}
    /\ handlerRejections' = handlerRejections + 1
    /\ UNCHANGED <<pageRest, currentPage, collectorEnded, presses, editQueue,
                   shownPage, shownControls, disabledShown, lastPress>>

\* the collector ends (time: 120000): the `end` listener calls message.edit
\* with buttonsDisabled
CollectorEnd ==
    /\ ~collectorEnded
    /\ collectorEnded' = TRUE
    /\ editQueue' = Append(editQueue, MessageEdit(currentPage, "disabled", "end"))
    /\ UNCHANGED <<pageRest, currentPage, presses, deferring, shownPage,
                   shownControls, disabledShown, lastPress, handlerRejections>>

\* the oldest edit is applied to the message
EditApplied ==
    /\ editQueue # <<>>
    /\ shownPage' = Head(editQueue).page
    /\ shownControls' = Head(editQueue).controls
    /\ disabledShown' = (disabledShown \/ Head(editQueue).by = "end")
    /\ editQueue' = Tail(editQueue)
    /\ UNCHANGED <<pageRest, currentPage, collectorEnded, presses, deferring,
                   lastPress, handlerRejections>>

\* the oldest edit rejects: the handler rejects, the `end` listener has
\* .catch(console.error)
EditRejected ==
    /\ editQueue # <<>>
    /\ handlerRejections' = IF Head(editQueue).by = "collect"
                            THEN handlerRejections + 1 ELSE handlerRejections
    /\ editQueue' = Tail(editQueue)
    /\ UNCHANGED <<pageRest, currentPage, collectorEnded, presses, deferring,
                   shownPage, shownControls, disabledShown, lastPress>>

PageNext ==
    \/ ButtonPressed
    \/ DeferUpdateResolved
    \/ DeferUpdateRejected
    \/ CollectorEnd
    \/ EditApplied
    \/ EditRejected

PageSpec == PageInit /\ [][PageNext]_vars

(***************************************************************************)
(* Startup (main of index).  main starts the three handler imports inside  *)
(* a forEach with an async callback, which nothing awaits, schedules the   *)
(* backup job and awaits client.login: when login is called every import   *)
(* is still pending.  The command handler (loadCommands) registers its     *)
(* `ready` and `guildCreate` listeners after it has awaited the directory  *)
(* listing and every definition file; the gateway emits `ready` once,      *)
(* when the login has gone through.                                        *)
(***************************************************************************)
MaxStartupFiles == 3

Handlers == {"events", "command", "antiCrash"}

\* the stage of a handler once its import has resolved and module.default
\* has been called: loadCommands suspends at readdir, the other two run to
\* their end
AfterImport(handler) == IF handler = "command" THEN "readdir" ELSE "done"

StartupInit ==
    /\ ReconcileUnused
    /\ slashCommandsMap = <<>>
    /\ RouterUnused
    /\ ValidateUnused
    /\ NormaliseUnused
    /\ DiffUnused
    /\ ChangesUnused
    /\ BuildUnused
    /\ CacheUnused
    /\ LogUnused
    /\ BackupUnused
    /\ PageUnused
    /\ definitionFiles \in 0..MaxStartupFiles
    /\ handlerStage = [handler \in Handlers |-> "importing"]
    /\ filesLeft = definitionFiles
    /\ loginStage = "connecting"
    /\ readyListener = FALSE
    /\ readyEmitted = FALSE
    /\ readyPasses = <<>>

startupRest == <<reconcileVars, routerVars, validateVars, normaliseVars, diffVars,
                 changesVars, buildVars, cacheVars, logVars, backupVars, pageVars,
                 definitionFiles>>

\* await import(`./handlers/${handler}`) resolves; module.default(client)
HandlerImported ==
    /\ \E handler \in Handlers :
          /\ handlerStage[handler] = "importing"
          /\ handlerStage' = [handlerStage EXCEPT ![handler] = AfterImport(handler)]
    /\ UNCHANGED <<startupRest, filesLeft, loginStage, readyListener, readyEmitted,
                   readyPasses>>

\* await readdir(commandsDirectoryPath) resolves: the files are imported
DirectoryRead ==
    /\ handlerStage["command"] = "readdir"
    /\ handlerStage' = [handlerStage EXCEPT !["command"] = "files"]
    /\ UNCHANGED <<startupRest, filesLeft, loginStage, readyListener, readyEmitted,
                   readyPasses>>

\* readdir rejects: the catch of loadCommands logs, no listener is installed
DirectoryFailed ==
    /\ handlerStage["command"] = "readdir"
    /\ handlerStage' = [handlerStage EXCEPT !["command"] = "failed"]
    /\ UNCHANGED <<startupRest, filesLeft, loginStage, readyListener, readyEmitted,
                   readyPasses>>

\* one definition file has been imported and validated
FileProcessed ==
    /\ handlerStage["command"] = "files"
    /\ filesLeft > 0
    /\ filesLeft' = filesLeft - 1
    /\ UNCHANGED <<startupRest, handlerStage, loginStage, readyListener,
                   readyEmitted, readyPasses>>

\* await Promise.all(categoryProcessing) resolves: clientInstance.on('ready')
\* and clientInstance.on('guildCreate')
ListenersInstalled ==
    /\ handlerStage["command"] = "files"
    /\ filesLeft = 0
    /\ handlerStage' = [handlerStage EXCEPT !["command"] = "done"]
    /\ readyListener' = TRUE
    /\ UNCHANGED <<startupRest, filesLeft, loginStage, readyEmitted, readyPasses>>

\* the listeners `ready` reaches when it is emitted: each starts a pass and
\* finds so many definition files not yet processed
PassesStarted == IF readyListener THEN <<filesLeft>> ELSE <<>>

\* the login goes through and the client emits `ready`
ReadyEmitted ==
    /\ loginStage = "connecting"
    /\ loginStage' = "ready"
    /\ readyEmitted' = TRUE
    /\ readyPasses' = readyPasses \o PassesStarted
    /\ UNCHANGED <<startupRest, handlerStage, filesLeft, readyListener>>

\* client.login rejects: main().catch(console.error)
LoginFailed ==
    /\ loginStage = "connecting"
    /\ loginStage' = "failed"
    /\ UNCHANGED <<startupRest, handlerStage, filesLeft, readyListener, readyEmitted,
                   readyPasses>>

StartupNext ==
    \/ HandlerImported
    \/ DirectoryRead
    \/ DirectoryFailed
    \/ FileProcessed
    \/ ListenersInstalled
    \/ ReadyEmitted
    \/ LoginFailed

StartupSpec == StartupInit /\ [][StartupNext]_vars

(***************************************************************************)
(* Notions the properties below are stated with.                           *)
(***************************************************************************)
Targets == MapValues(slashCommandsMap)

PlanIsEmpty == commandsToAdd = {} /\ commandsToUpdate = {} /\ commandsToDelete = {}

Mutations == {op \in issued : op.kind \in {"delete", "edit", "create"}}

\* deep equality of two plain values, objects compared as key -> value maps
RECURSIVE ValueEquals(_, _)
ValueEquals(a, b) ==
    /\ a.t = b.t
    /\ CASE a.t = "array" ->
              /\ Len(a.v) = Len(b.v)
              /\ \A i \in 1..Len(a.v) : ValueEquals(a.v[i], b.v[i])
         [] a.t = "object" ->
              /\ SeqToSet(ObjectKeys(a)) = SeqToSet(ObjectKeys(b))
              /\ \A i \in 1..Len(a.v) : ValueEquals(a.v[i][2], GetKey(b, a.v[i][1]))
         [] OTHER -> a.v = b.v

\* the remote command equals the target field for field after normalisation
NormalisedEqual(slashCommand, command) ==
    LET normalisedNew == deepNormalise(Builder(slashCommand), NoKeysToKeep, {}, TRUE,
                                       EmptyHeap).val
        normalisedExisting ==
            deepNormalise(AppCommand(command),
                          KeysToKeep(SeqToSet(ObjectKeys(normalisedNew))), {}, TRUE,
                          EmptyHeap).val
    IN ValueEquals(normalisedNew, normalisedExisting)

\* every key and position of x is present in y with the same content
RECURSIVE Contained(_, _)
Contained(x, y) ==
    CASE x.t = "null" -> TRUE
      [] x.t = "array" ->
            /\ y.t = "array"
            /\ Len(x.v) = Len(y.v)
            /\ \A i \in 1..Len(x.v) : Contained(x.v[i], y.v[i])
      [] x.t = "object" ->
            \A i \in 1..Len(x.v) : Contained(x.v[i][2], GetKey(y, x.v[i][1]))
      [] OTHER -> x.t = y.t /\ x.v = y.v

\* the normalised remote command holds everything the normalised target holds
NormalisedContained(slashCommand, command) ==
    LET normalisedNew == deepNormalise(Builder(slashCommand), NoKeysToKeep, {}, TRUE,
                                       EmptyHeap).val
        normalisedExisting ==
            deepNormalise(AppCommand(command),
                          KeysToKeep(SeqToSet(ObjectKeys(normalisedNew))), {}, TRUE,
                          EmptyHeap).val
    IN Contained(normalisedNew, normalisedExisting)

UpdateLocalNames == {entry[2].name : entry \in commandsToUpdate}
UpdateRemotes == {entry[1] : entry \in commandsToUpdate}
AddNames == {slashCommand.name : slashCommand \in commandsToAdd}
DeleteNames == {command.name : command \in commandsToDelete}
TargetNames == {slashCommand.name : slashCommand \in Targets}

(***************************************************************************)
(* C1.  Reconciliation idempotence: after a `ready` pass in which every    *)
(* remote operation succeeded, a second pass with no change in between     *)
(* computes empty toAdd, toUpdate and toDelete and issues no mutation, for *)
(* every set of loaded definitions and in both modes.                      *)
(***************************************************************************)
C1_SecondPassIsEmpty ==
    (planned /\ prevClean /\ curClean) => (PlanIsEmpty /\ Mutations = {})

(***************************************************************************)
(* C2.  Reconciliation minimality: when every target has a fetched remote  *)
(* command of its name that equals it after normalisation, and every       *)
(* fetched remote command is such a match, the plan is empty and no        *)
(* create, edit or delete is issued.                                       *)
(***************************************************************************)
AllTargetsMatchExactly ==
    /\ \A slashCommand \in Targets :
          \E command \in currentCommands :
              command.name = slashCommand.name /\ NormalisedEqual(slashCommand, command)
    /\ \A command \in currentCommands :
          \E slashCommand \in Targets :
              command.name = slashCommand.name /\ NormalisedEqual(slashCommand, command)

C2_ExactMatchEmptyPlan ==
    (planned /\ AllTargetsMatchExactly) => (PlanIsEmpty /\ Mutations = {})

(***************************************************************************)
(* C3.  Reconciliation partition, as stated: toAdd, the names in toUpdate  *)
(* and toDelete are pairwise disjoint by name, every target name is in     *)
(* exactly one of {toUpdate local side, toAdd} and every fetched remote    *)
(* command in exactly one of {toUpdate remote side, toDelete}.             *)
(***************************************************************************)
PlanNamesDisjoint ==
    /\ AddNames \cap UpdateLocalNames = {}
    /\ AddNames \cap DeleteNames = {}
    /\ UpdateRemotes \cap commandsToDelete = {}
    /\ {command.name : command \in UpdateRemotes} \cap AddNames = {}

NameNeedsWork(name) ==
    \/ \A command \in currentCommands : command.name # name
    \/ \E command \in currentCommands, slashCommand \in Targets :
          /\ command.name = name
          /\ slashCommand.name = name
          /\ ~NormalisedContained(slashCommand, command)

C4_StaleCommandsDeleted ==
    planned =>
        \A command \in currentCommands :
            IF command.name \in TargetNames
            THEN command \notin commandsToDelete
            ELSE /\ command \in commandsToDelete
                 /\ (pc = "done" => DeleteOp(command) \in issued)

(***************************************************************************)
(* C5.  A target is in toAdd if and only if no fetched remote command has  *)
(* exactly its name; a target with a matching remote command is never      *)
(* created again.                                                          *)
(***************************************************************************)
C5_AddIffUnmatched ==
    planned =>
        /\ \A slashCommand \in Targets :
              (slashCommand \in commandsToAdd)
                  <=> (\A command \in currentCommands : command.name # slashCommand.name)
        /\ \A op \in issued :
              op.kind = "create" =>
                  \A command \in currentCommands : command.name # op.name

C5_Witness ==
    /\ planned
    /\ \E op \in issued : op.kind = "create"
    /\ \E slashCommand \in Targets : slashCommand \notin commandsToAdd

(***************************************************************************)
(* C6.  A pair (target, fetched remote command) of the same name is in     *)
(* toUpdate if and only if the diff of the normalised target against the   *)
(* normalised remote command is non-null; the edits issued are those of    *)
(* the pairs in toUpdate, so a pair with a null diff causes no edit.       *)
(***************************************************************************)
C6_UpdateIffDiff ==
    planned =>
        /\ \A slashCommand \in Targets, command \in currentCommands :
              command.name = slashCommand.name =>
                  ((\E entry \in commandsToUpdate :
                        entry[1] = command /\ entry[2] = slashCommand)
                   <=> ~NormalisedContained(slashCommand, command))
        /\ \A entry \in commandsToUpdate :
              /\ entry[1] \in currentCommands
              /\ entry[2] \in Targets
              /\ entry[1].name = entry[2].name
              /\ entry[3] = findSlashChanges(entry[2], entry[1])
        /\ {op \in issued : op.kind = "edit"} \subseteq EditOps(commandsToUpdate)
        /\ (pc = "done" => EditOps(commandsToUpdate) \subseteq issued)

C6_Witness ==
    /\ planned
    /\ pc = "done"
    /\ commandsToUpdate # {}
    /\ \E slashCommand \in Targets, command \in currentCommands :
          /\ command.name = slashCommand.name
          /\ NormalisedContained(slashCommand, command)

(***************************************************************************)
(* C7.  Phase ordering: every delete is issued before any update and every *)
(* update before any create, and no operation of a later phase is issued   *)
(* while an operation of an earlier phase of the pass is still in flight.  *)
(***************************************************************************)
PhaseOf(op) ==
    CASE op.kind = "delete" -> 1
      [] op.kind = "edit" -> 2
      [] op.kind = "create" -> 3
      [] OTHER -> 0

C8_FailureIsolation ==
    /\ \A op \in failed : op.kind \in {"delete", "edit", "create"} => op \in log
    /\ \A op \in uncaught : op.kind \notin {"delete", "edit", "create", "fetch"}
    /\ (planned /\ pc = "done") =>
          /\ DeleteOps(commandsToDelete) \subseteq issued
          /\ EditOps(commandsToUpdate) \subseteq issued
          /\ \A slashCommand \in commandsToAdd :
                CreateOp(ActiveScope(enableGlobalSlashCommands), slashCommand)
                    \in issued

C8_Witness ==
    /\ planned
    /\ pc = "done"
    /\ \E op \in failed \cap issued :
          /\ op.kind \in {"edit", "create"}
          /\ \E other \in issued \ failed : other.kind # op.kind

(***************************************************************************)
(* C9.  In server mode a rejected guild fetch does not stop the pass: the  *)
(* pass plans with the commands of the guilds whose fetch was fulfilled,   *)
(* and a guild whose fetch was rejected contributes no remote entry, so    *)
(* none of its commands is in toUpdate or toDelete.                        *)
(***************************************************************************)
C9_GuildFetchFailureTolerated ==
    /\ pc = "fetchGlobal" =>
          fulfilledGuildCommands =
              UNION {remote[g] : g \in guildPromises \ fetchFailed}
    /\ (planned /\ ~enableGlobalSlashCommands) =>
          /\ currentCommands = fulfilledGuildCommands
          /\ \A command \in currentCommands \cup UpdateRemotes \cup commandsToDelete :
                command.guildId \in guildPromises \ fetchFailed
    /\ (pc \in {"deleting", "updating", "adding", "done"} /\ passes > 0 /\ ~planned) =>
          (FetchOp(GlobalScope) \in failed \/ ApplicationUnavailable \in log)

C9_Witness ==
    /\ planned
    /\ ~enableGlobalSlashCommands
    /\ fetchFailed # {}
    /\ commandsToUpdate # {}
    /\ \E g \in fetchFailed : remote[g] # {}

(***************************************************************************)
(* C10.  On guildCreate in server mode exactly one bulk set, carrying the  *)
(* JSON of every builder, is sent to the joining guild; in global mode no  *)
(* remote call is made for it; a rejected set is logged and does not leave *)
(* the listener.                                                           *)
(***************************************************************************)
C10_GuildCreateSendsOneSet ==
    /\ \A g \in AllGuilds :
          guildSets[g] =
              IF g \in guilds \ {InitialGuild} /\ ~enableGlobalSlashCommands
              THEN << [kind |-> "set", scope |-> g, name |-> "*",
                       payload |-> {BuilderToJSON(slashCommand) :
                                       slashCommand \in Targets}] >>
              ELSE <<>>
    /\ \A op \in inflight : op.kind = "set" => op \in SeqToSet(guildSets[op.scope])
    /\ \A op \in failed : op.kind = "set" => op \in log
    /\ \A op \in uncaught : op.kind # "set"

C10_Witness ==
    /\ ~enableGlobalSlashCommands
    /\ \E op \in failed : op.kind = "set" /\ Fulfilments(op, remote[op.scope]) # {}
    /\ \E g \in guilds \ {InitialGuild} : Len(guildSets[g]) = 1

(***************************************************************************)
(* C11.  As stated: applying a plan causes exactly one remote mutation     *)
(* attempt per plan entry, one delete per toDelete entry, one edit per     *)
(* toUpdate entry and one create per toAdd entry, in both modes and for    *)
(* any number of joined guilds.                                            *)
(***************************************************************************)
IssuedOfKind(kind) == {op \in issued : op.kind = kind}

CreatesFor(slashCommand) ==
    {op \in IssuedOfKind("create") : op.payload = BuilderToJSON(slashCommand)}

C11_OneMutationPerEntry ==
    (planned /\ pc = "done") =>
        /\ Cardinality(IssuedOfKind("delete")) = Cardinality(commandsToDelete)
        /\ Cardinality(IssuedOfKind("edit")) = Cardinality(commandsToUpdate)
        /\ Cardinality(IssuedOfKind("create")) = Cardinality(commandsToAdd)

(***************************************************************************)
(* C11, amended.  One delete per toDelete entry and one edit per toUpdate  *)
(* entry; one create per toAdd entry in global mode, and in server mode    *)
(* one create per toAdd entry in every guild joined when the additions are *)
(* sent.  No other delete, edit or create is issued.                       *)
(***************************************************************************)
C11_OneMutationPerEntryAndGuild ==
    (planned /\ pc = "done") =>
        /\ IssuedOfKind("delete") = DeleteOps(commandsToDelete)
        /\ Cardinality(IssuedOfKind("delete")) = Cardinality(commandsToDelete)
        /\ IssuedOfKind("edit") = EditOps(commandsToUpdate)
        /\ Cardinality(IssuedOfKind("edit")) = Cardinality(commandsToUpdate)
        /\ \A op \in IssuedOfKind("create") :
              \E slashCommand \in commandsToAdd : op \in CreatesFor(slashCommand)
        /\ \A slashCommand \in commandsToAdd :
              IF enableGlobalSlashCommands
              THEN CreatesFor(slashCommand) = {CreateOp(GlobalScope, slashCommand)}
              ELSE \E joined \in SUBSET guilds :
                      /\ guildPromises \subseteq joined
                      /\ CreatesFor(slashCommand) =
                            {CreateOp(g, slashCommand) : g \in joined}

C11_Witness ==
    /\ planned
    /\ pc = "done"
    /\ ~enableGlobalSlashCommands
    /\ commandsToUpdate # {}
    /\ \E slashCommand \in commandsToAdd : Cardinality(CreatesFor(slashCommand)) = 2

(***************************************************************************)
(* Notions of the router properties.                                       *)
(***************************************************************************)
LoadingIsOver ==
    pendingImports = {} /\ categoriesLoaded = DOMAIN categoryCommands

\* the token of a message, and the prefix the guild resolves to
TokenOf(event) == FirstToken(event.content)
ResolvedPrefix(event) ==
    IF Truthy(event.guildPrefix) THEN event.guildPrefix.v ELSE DefaultPrefix

BeginsWithPrefixOrMention(event) ==
    \/ StartsWith(TokenOf(event), ResolvedPrefix(event))
    \/ StartsWith(TokenOf(event), "<@" \o ClientUserId \o ">")
    \/ StartsWith(TokenOf(event), "<@!" \o ClientUserId \o ">")

\* what dispatching a command token resolves to
Resolve(token) == FindCommand(clientCommands, clientAliases, ToLowerCase(token))

(***************************************************************************)
(* C12.  Dispatch prefix gating: an event that has just been handled       *)
(* caused an execute only if, for a message, its first token begins with   *)
(* the guild's resolved prefix or a mention of the bot; and a message      *)
(* whose first token is the resolved prefix followed by a registered       *)
(* command name caused the execute of that command.                        *)
(***************************************************************************)
C12_GatedBy(h, commands) ==
    (h.event.kind = "message" /\ h.event.inGuild) =>
        /\ h.executed => BeginsWithPrefixOrMention(h.event)
        /\ \A name \in DOMAIN commands :
              TokenOf(h.event) = ResolvedPrefix(h.event) \o name =>
                  (h.executed /\ h.command = commands[name])

C12_PrefixGating ==
    [][handled' # handled => C12_GatedBy(handled', clientCommands)]_vars

(***************************************************************************)
(* C13.  Dispatch-time failure containment: when the execute of the        *)
(* resolved command fails, by a throw or by a rejected promise, the router *)
(* has logged the error and replied with the error embed, and the failure  *)
(* has not left the router.                                                *)
(***************************************************************************)
C13_FailureContained ==
    (handled.executed /\ handled.failed) =>
        (handled.logged /\ handled.replied /\ ~handled.unhandled)

(***************************************************************************)
(* C14.  Extractor selection by invocation kind: for an interaction only   *)
(* slashExtract is called and for a message only textExtract; a command    *)
(* without an extractor for the kind of the invocation gets the empty      *)
(* option data, whatever other extractor it defines.                       *)
(***************************************************************************)
ExtractorOfKind(event) ==
    IF event.kind = "interaction" THEN "slashExtract" ELSE "textExtract"

C14_ExtractorByKind ==
    handled.executed =>
        LET extractor == ExtractorOfKind(handled.event)
        IN IF TypeOf(GetKey(handled.command, extractor)) = "function"
           THEN /\ handled.extractor = extractor
                /\ handled.optionData = Extracted(extractor)
           ELSE /\ handled.extractor = ""
                /\ handled.optionData = Obj(<<>>)

(***************************************************************************)
(* C15.  Alias resolution: for a registered definition with name n and     *)
(* alias a, token a resolves to what token n resolves to, namely the       *)
(* definition (unless a definition is registered under a itself); a token  *)
(* under which a definition is registered resolves to that definition;     *)
(* and an alias whose name has no definition resolves to nothing.          *)
(***************************************************************************)
AliasesOf(commandDefinition) ==
    IF IsArray(GetKey(commandDefinition, "aliases"))
    THEN {alias.v : alias \in SeqToSet(GetKey(commandDefinition, "aliases").v)}
    ELSE {}

C15_AliasResolution ==
    /\ \A name \in DOMAIN clientCommands :
          /\ Resolve(name) = clientCommands[name]
          /\ \A alias \in AliasesOf(clientCommands[name]) :
                ToLowerCase(alias) \notin DOMAIN clientCommands =>
                    Resolve(alias) = Resolve(name)
    /\ \A alias \in DOMAIN clientAliases :
          (alias \notin DOMAIN clientCommands
           /\ clientAliases[alias].v \notin DOMAIN clientCommands) =>
              ~Truthy(Resolve(alias))

(***************************************************************************)
(* C16.  Command names match case-insensitively: for every registered      *)
(* definition, the direct name lookup of its name, written as it is or in  *)
(* lower case, finds the definition.                                       *)
(***************************************************************************)
DirectLookup(token) == MapGet(clientCommands, ToLowerCase(token))

C16_NamesMatchAnyCase ==
    \A name \in DOMAIN clientCommands :
        /\ DirectLookup(name) = clientCommands[name]
        /\ DirectLookup(ToLowerCase(name)) = clientCommands[name]

(***************************************************************************)
(* C17.  Loader resilience: a file that fails validation or whose import   *)
(* throws contributes no name, no alias and no slash target and ends in    *)
(* one log entry; every other file is registered: when loading is over,    *)
(* with k such files among n files exactly n - k commands are registered.  *)
(***************************************************************************)
ValidFiles ==
    {file \in commandsDirectory :
        file.imports /\ validateCommandStructure(file.module) = "valid"}

NameOfFile(file) == GetKey(file.module, "name").v

IsNonEmptyString(x) == x.t = "string" /\ x.v # ""

IsSingleKindOption(optionStruct) ==
    /\ optionStruct.t = "object"
    /\ Len(optionStruct.v) = 1
    /\ IsNonEmptyString(GetKey(optionStruct.v[1][2], "name"))
    /\ IsNonEmptyString(GetKey(optionStruct.v[1][2], "description"))

SatisfiesDataModel(commandDefinition) ==
    /\ IsNonEmptyString(GetKey(commandDefinition, "name"))
    /\ IsNonEmptyString(GetKey(commandDefinition, "description"))
    /\ GetKey(commandDefinition, "execute").t = "function"
    /\ LET options == GetKey(commandDefinition, "options")
       IN IsNotNullish(options) =>
              /\ options.t = "array"
              /\ \A i \in 1..Len(options.v) : IsSingleKindOption(options.v[i])
    /\ \A extractor \in {"textExtract", "slashExtract"} :
          IsNotNullish(GetKey(commandDefinition, extractor)) =>
              GetKey(commandDefinition, extractor).t = "function"

C18_AcceptsExactlyWellFormed ==
    verdict # "none" => (verdict = "valid" <=> SatisfiesDataModel(validatedCommand))

(***************************************************************************)
(* C19.  Normalisation collapses emptiness: deepNormalise returns null for *)
(* [], for {} and for [null, undefined], and its result holds no empty     *)
(* array and no empty object at any depth.                                 *)
(***************************************************************************)
RECURSIVE HoldsNoEmptyContainer(_)
HoldsNoEmptyContainer(x) ==
    CASE x.t = "array" ->
            /\ x.v # <<>>
            /\ \A i \in 1..Len(x.v) : HoldsNoEmptyContainer(x.v[i])
      [] x.t = "object" ->
            /\ x.v # <<>>
            /\ \A i \in 1..Len(x.v) : HoldsNoEmptyContainer(x.v[i][2])
      [] OTHER -> TRUE

C19_EmptinessCollapses ==
    normalised # Undefined =>
        /\ normalisedObject \in {Arr(<<>>), Obj(<<>>), Arr(<<Null, Undefined>>)}
              => normalised = Null
        /\ HoldsNoEmptyContainer(normalised)

(***************************************************************************)
(* C20.  Normalisation idempotence: deepNormalise applied to its own       *)
(* result, with the same key filter, returns that result.                  *)
(***************************************************************************)
C20_NormaliseIdempotent ==
    normalisedAgain # Undefined => normalisedAgain = normalised

C20_Witness ==
    /\ normalisedAgain # Undefined
    /\ normalisedKeys = KeysToKeep({"a"})
    /\ normalisedHeap[1] = Obj(<< <<"self", Ref(1)>> >>)
    /\ normalisedObject = Obj(<< <<"a", Arr(<<Ref(1), Ref(2)>>)>>, <<"b", Num(0)>> >>)
    /\ normalised = Obj(<< <<"a", Arr(<<Obj(<<>>)>>)>> >>)

(***************************************************************************)
(* C21.  Cycle safety: deepNormalise returns for every object graph, also  *)
(* one in which a field points back to the object itself or to an          *)
(* ancestor; the result is a finite tree without references, and the field *)
(* that closes a cycle is absent from it (an array element that closes a   *)
(* cycle is dropped).                                                      *)
(***************************************************************************)
RECURSIVE HoldsReference(_)
HoldsReference(x) ==
    CASE x.t = "ref" -> TRUE
      [] x.t = "array" -> \E i \in 1..Len(x.v) : HoldsReference(x.v[i])
      [] x.t = "object" -> \E i \in 1..Len(x.v) : HoldsReference(x.v[i][2])
      [] OTHER -> FALSE

\* output is the normal form of input, which lies below the objects of path:
\* no field of output stands for a reference to an object of the path
RECURSIVE ClosingFieldsAbsent(_, _, _, _)
ClosingFieldsAbsent(input, output, path, heap) ==
    LET here == IF input.t = "ref" THEN path \cup {input.v} ELSE path
        target == IF input.t = "ref" THEN heap[input.v] ELSE input
        Closes(value) == value.t = "ref" /\ value.v \in here
    IN /\ (target.t = "object" /\ output.t = "object") =>
              \A i \in 1..Len(target.v) :
                  IF Closes(target.v[i][2])
                  THEN target.v[i][1] \notin SeqToSet(ObjectKeys(output))
                  ELSE ClosingFieldsAbsent(target.v[i][2],
                                           GetKey(output, target.v[i][1]), here, heap)
       /\ (target.t = "array" /\ output.t = "array") =>
              Len(output.v) <= Cardinality({i \in 1..Len(target.v) :
                                              ~Closes(target.v[i])})

C21_CycleSafety ==
    normalised # Undefined =>
        /\ ~HoldsReference(normalised)
        /\ ClosingFieldsAbsent(normalisedObject, normalised, {}, normalisedHeap)

\* a field that points back to the object itself, and one that points back
\* to an ancestor
C21_Witness ==
    \/ /\ normalisedHeap[1] = Obj(<< <<"self", Ref(1)>> >>)
       /\ normalisedObject = Obj(<< <<"a", Ref(1)>>, <<"b", Num(0)>> >>)
       /\ normalisedKeys = NoKeysToKeep
       /\ normalised = Obj(<< <<"a", Obj(<<>>)>>, <<"b", Num(0)>> >>)
    \/ /\ normalisedHeap[1] = Obj(<< <<"next", Ref(2)>> >>)
       /\ normalisedObject = Ref(1)
       /\ normalisedKeys = NoKeysToKeep
       /\ normalised = Obj(<< <<"next", Obj(<< <<"k", Num(1)>> >>)>> >>)

(***************************************************************************)
(* C22.  deepNormalise answers a reference with "absent" only when the     *)
(* reference repeats along the current path: an object that is referenced  *)
(* from two positions without lying on a cycle is normalised at both       *)
(* positions.  NormalisedAlongPath is that normal form: it is              *)
(* deepNormalise with the objects of the current path in place of the      *)
(* objects met so far.                                                     *)
(***************************************************************************)
RECURSIVE NormalisedAlongPath(_, _, _, _, _)
NormalisedAlongPath(object, keysToKeep, path, isTopLevel, heap) ==
    IF object.t \in {"null", "undefined"} THEN Null
    ELSE IF ~IsObjectType(object) THEN object
    ELSE IF object.t = "ref" /\ object.v \in path THEN Null
    ELSE LET here == IF object.t = "ref" THEN path \cup {object.v} ELSE path
             target == IF object.t = "ref" THEN heap[object.v] ELSE object
             Below(value) == NormalisedAlongPath(value, keysToKeep, here, FALSE, heap)
         IN IF target.t = "array"
            THEN LET items == SelectSeq([i \in 1..Len(target.v) |-> Below(target.v[i])],
                                        IsNotNullish)
                 IN IF Len(items) > 0 THEN Arr(items) ELSE Null
            ELSE LET entries == PlainObject(target).v
                     Kept(entry) ==
                         /\ ~(isTopLevel /\ keysToKeep.given
                                /\ entry[1] \notin keysToKeep.keys)
                         /\ IsNotNull(Below(entry[2]))
                     kept == SelectSeq(entries, Kept)
                 IN Obj([i \in 1..Len(kept) |-> <<kept[i][1], Below(kept[i][2])>>])

C22_OnlyCyclesCollapse ==
    normalised # Undefined =>
        normalised = NormalisedAlongPath(normalisedObject, normalisedKeys, {}, TRUE,
                                         normalisedHeap)

(***************************************************************************)
(* C23.  Diff reflexivity: for every value x that deepNormalise produces   *)
(* (x is its own normal form), findDifferences(x, x) is null.              *)
(***************************************************************************)
IsNormalised(x) == deepNormalise(x, NoKeysToKeep, {}, TRUE, EmptyHeap).val = x

C23_DiffReflexive ==
    (/\ foundDifferences # NotCalled
     /\ baselineObject = candidateObject
     /\ IsNormalised(candidateObject)) => foundDifferences = Null

(***************************************************************************)
(* C24.  Array rule of findDifferences: for a candidate array, the result  *)
(* is the whole candidate when the baseline is not an array or has another *)
(* length; otherwise the elements are diffed pairwise by position, and the *)
(* result is null when every pairwise diff is null and else the array of   *)
(* the pairwise diffs, null standing at each unchanged position.           *)
(***************************************************************************)
C24_ArrayRule ==
    (foundDifferences # NotCalled /\ candidateObject.t = "array") =>
        IF baselineObject.t # "array"
           \/ Len(candidateObject.v) # Len(baselineObject.v)
        THEN foundDifferences = candidateObject
        ELSE LET positions == 1..Len(candidateObject.v)
                 Pairwise(i) == findDifferences(candidateObject.v[i],
                                                baselineObject.v[i])
             IN IF \A i \in positions : Pairwise(i) = Null
                THEN foundDifferences = Null
                ELSE /\ foundDifferences.t = "array"
                     /\ Len(foundDifferences.v) = Len(candidateObject.v)
                     /\ \A i \in positions : foundDifferences.v[i] = Pairwise(i)

\* [1, {a: 1, b: 2}] against [1, {a: 1, b: 1}] gives [null, {b: 2}]; an
\* array against one of another length gives the array
C24_Witness ==
    \/ /\ candidateObject = Arr(<<Num(1), Num(2)>>)
       /\ baselineObject = Arr(<<Num(1), Num(1)>>)
       /\ foundDifferences = Arr(<<Null, Num(2)>>)
    \/ /\ candidateObject = Arr(<<Num(1), Num(2)>>)
       /\ baselineObject = Arr(<<Num(2)>>)
       /\ foundDifferences = candidateObject

(***************************************************************************)
(* C25.  findDifferences is one-directional: every key of the result, at   *)
(* every depth, is a key of the candidate at that place; a key that only   *)
(* the baseline has never appears; a key that only the candidate has, with *)
(* a value that is not null, appears with the candidate's value            *)
(* (diff({a: 1, b: 2}, {a: 1}) = {b: 2}).                                  *)
(***************************************************************************)
RECURSIVE KeysWithin(_, _)
KeysWithin(result, candidate) ==
    CASE result.t = "object" ->
            /\ candidate.t = "object"
            /\ \A i \in 1..Len(result.v) :
                  /\ result.v[i][1] \in SeqToSet(ObjectKeys(candidate))
                  /\ KeysWithin(result.v[i][2], GetKey(candidate, result.v[i][1]))
      [] result.t = "array" ->
            /\ candidate.t = "array"
            /\ Len(result.v) = Len(candidate.v)
            /\ \A i \in 1..Len(result.v) : KeysWithin(result.v[i], candidate.v[i])
      [] OTHER -> TRUE

KeySet(x) == IF x.t = "object" THEN SeqToSet(ObjectKeys(x)) ELSE {}

ResultKeysAreCandidateKeys == KeysWithin(foundDifferences, candidateObject)

BaselineOnlyKeysAbsent ==
    \A key \in KeySet(baselineObject) \ KeySet(candidateObject) :
        key \notin KeySet(foundDifferences)

CandidateOnlyKeysKept ==
    \A key \in KeySet(candidateObject) \ KeySet(baselineObject) :
        IsNotNullish(GetKey(candidateObject, key)) =>
            GetKey(foundDifferences, key) = GetKey(candidateObject, key)

C25_OneDirectional ==
    foundDifferences # NotCalled =>
        /\ ResultKeysAreCandidateKeys
        /\ BaselineOnlyKeysAbsent
        /\ CandidateOnlyKeysKept

(***************************************************************************)
(* C26.  findSlashChanges(local, remote) is null whenever the remote       *)
(* command agrees with the normalised form of the local target on every    *)
(* key, at every depth, that the local form has: fields that only the      *)
(* remote side has, at the top level or nested, produce no difference, and *)
(* the key restriction does not remove nested fields of the remote that    *)
(* the local side has too.                                                 *)
(***************************************************************************)
RemoteAgreesWithLocal ==
    Contained(deepNormalise(localCommand, NoKeysToKeep, {}, TRUE, EmptyHeap).val,
              PlainObject(remoteCommand))

C26_AgreementGivesNoChange ==
    RemoteAgreesWithLocal =>
        /\ slashChanges \in {NotCalled, Null}
        /\ slashChangesEarlier \in {NotCalled, Null}

(***************************************************************************)
(* C27.  One target per category: after loading, slashCommandsMap has      *)
(* exactly one entry for each category that holds a valid definition,      *)
(* keyed by the category name; the target of category c is named           *)
(* lowercase(c) and has exactly one subcommand for each valid definition   *)
(* of c, named lowercase(definition name).                                 *)
(***************************************************************************)
ValidCategories == {file.category : file \in ValidFiles}

SubcommandNames(slashCommand) ==
    {slashCommand.options[i].name : i \in 1..Len(slashCommand.options)}

C27_OneTargetPerCategory ==
    LoadingIsOver =>
        /\ DOMAIN slashCommandsMap = ValidCategories
        /\ \A categoryName \in ValidCategories :
              LET target == slashCommandsMap[categoryName]
                  valid == {file \in ValidFiles : file.category = categoryName}
              IN /\ target.name = ToLowerCase(categoryName)
                 /\ Len(target.options) = Cardinality(valid)
                 /\ SubcommandNames(target) =
                       {ToLowerCase(NameOfFile(file)) : file \in valid}

(***************************************************************************)
(* C28.  Option attachment: the options of a built subcommand are the      *)
(* options of the definition that have a known kind tag, in the order      *)
(* given, each with the given name and description and with required =     *)
(* false when the definition omits it; an option with an unknown kind tag  *)
(* is skipped with a warning and the later options are still attached.     *)
(***************************************************************************)
KnownKind(commandOption) ==
    OptionBuilderMapping(ToLowerCase(commandOption.v[1][1])) # 0

UnknownKind(commandOption) == ~KnownKind(commandOption)

ExpectedOptions ==
    LET known == SelectSeq(definitionOptions, KnownKind)
    IN [i \in 1..Len(known) |->
           LET optionDetails == known[i].v[1][2]
           IN [type |-> OptionBuilderMapping(ToLowerCase(known[i].v[1][1])),
               name |-> GetKey(optionDetails, "name").v,
               description |-> GetKey(optionDetails, "description").v,
               required |-> (GetKey(optionDetails, "required") = Bool(TRUE))]]

ExpectedWarnings ==
    LET unknown == SelectSeq(definitionOptions, UnknownKind)
    IN [i \in 1..Len(unknown) |-> unknown[i].v[1][1]]

AttachedAsClaimed(built) ==
    built # NotCalled =>
        /\ ~built.threw
        /\ built.options = ExpectedOptions
        /\ built.warnings = ExpectedWarnings

C28_OptionAttachment ==
    AttachedAsClaimed(builtSubcommand) /\ AttachedAsClaimed(builtSubcommandEarlier)

(***************************************************************************)
(* C29.  Cache retention: once a getCache(g) call has completed, every     *)
(* later getCache(g) returns the retained value without reading the        *)
(* document store, until removeCache(g) or clearCache() is called, also    *)
(* when the guild has no document or its document carries null data.       *)
(***************************************************************************)
C29_CacheRetention ==
    (returned # NotCalled /\ returned.afterCompleted) =>
        /\ ~returned.read
        /\ returned.retained # Str("absent")
        /\ returned.value = returned.retained

(***************************************************************************)
(* C30  logError chunking: for an error text of length L, logError         *)
(* produces ceil(L / 1990) consecutive chunks of at most 1990 characters   *)
(* each, whose concatenation in order is the text, and sends one message   *)
(* per chunk to the error-log channel; when the channel is missing or not  *)
(* sendable nothing is sent and the error is written to the console        *)
(* instead; logError never throws.                                         *)
(***************************************************************************)
LoggedText == ErrorText(errorValue)

\* the least number of pieces of at most size characters that cover length
Ceiling(length, size) ==
    CHOOSE n \in 0..length : n * size >= length /\ (n = 0 \/ (n - 1) * size < length)

\* the chunk a sent message carries between its fences
Carried(message) == SubSeq(message, 5, Len(message) - 4)

RECURSIVE Concatenation(_)
Concatenation(messages) ==
    IF messages = <<>> THEN <<>>
    ELSE Carried(Head(messages)) \o Concatenation(Tail(messages))

C30_LogErrorChunking ==
    logOutcome # "none" =>
        /\ logOutcome = "returned"
        /\ IF errorChannel = "sendable"
           THEN /\ Len(sendCalls) = Ceiling(Len(LoggedText), SIZE_RESTRICTION)
                /\ \A i \in DOMAIN sendCalls :
                      /\ sendCalls[i] = Fence(Carried(sendCalls[i]))
                      /\ Len(Carried(sendCalls[i])) <= SIZE_RESTRICTION
                /\ Concatenation(sendCalls) = LoggedText
           ELSE /\ sendCalls = <<>>
                /\ \E i \in DOMAIN consoleErrors : consoleErrors[i].text = LoggedText

(***************************************************************************)
(* C31  Backup job error handling: when the archive step or the upload of  *)
(* the scheduled backup job has failed, the failure is logged and not      *)
(* raised to the process, and the local artifacts (the archive and the     *)
(* three JSON snapshots) are removed after the failure.                    *)
(***************************************************************************)
C31_BackupErrorHandling ==
    (backupPc = "done" /\ backupFailure \in {"archive", "upload"}) =>
        /\ backupFailure \in backupLogged
        /\ raisedToProcess = {}
        /\ localFiles = {}

(***************************************************************************)
(* C32  Invalidation forces a fresh read: the first getCache(g) to         *)
(* complete after removeCache(g) or clearCache() returns a value that was  *)
(* read from the document store after the invalidation, and no cache fill  *)
(* that began before the invalidation puts the value it read before it     *)
(* into the cache afterwards.                                              *)
(***************************************************************************)
C32_InvalidationForcesFreshRead ==
    /\ (returned # NotCalled /\ returned.afterInvalidation) => ~returned.stale
    /\ staleEntries = {}

(***************************************************************************)
(* C35  Miss and hit agree: the value getCache(g) returns on the call that *)
(* fills the cache is the value it put into the cache, which later calls   *)
(* served from the cache return, namely the settings data of the guild;    *)
(* so the prefix the router resolves from it for the first message of a    *)
(* guild is the prefix it resolves for later messages.                     *)
(***************************************************************************)
\* guildData?.prefix || config.defaultPrefix, as the router resolves it
PrefixFromCache(guildData) == PrefixOf(MessageEvent("", GetKey(guildData, "prefix")))

C35_MissAndHitAgree ==
    (returned # NotCalled /\ returned.filled) =>
        /\ returned.value = returned.stored
        /\ PrefixFromCache(returned.value) = PrefixFromCache(returned.stored)

(***************************************************************************)
(* C33  Pagination deactivation: once the disabled controls of the `end`   *)
(* listener are on the message they stay on it: no later edit re-attaches  *)
(* the active buttons, also when a button press was being handled,         *)
(* suspended at deferUpdate or at the message edit, when the collector     *)
(* ended.                                                                  *)
(***************************************************************************)
C33_PaginationDeactivation == disabledShown => shownControls = "disabled"

(***************************************************************************)
(* C37  Pagination page index: for n embeds the current page stays within  *)
(* 0..n-1; `next` moves to the following page and from the last page to    *)
(* page 0, `back` to the preceding page and from page 0 to page n-1,       *)
(* `backskip` to 0 and `nextskip` to n-1; a press by a user other than the *)
(* invoker is never handled, so it never changes the page.                 *)
(***************************************************************************)
ExpectedPage(customId, before, n) ==
    CASE customId = "next" -> (before + 1) % n
      [] customId = "back" -> (before + n - 1) % n
      [] customId = "backskip" -> 0
      [] customId = "nextskip" -> n - 1

C37_PageIndex ==
    /\ currentPage \in 0..(embedCount - 1)
    /\ \A handler \in deferring : handler.user = Invoker
    /\ lastPress # NotCalled =>
          /\ lastPress.user = Invoker
          /\ lastPress.after = ExpectedPage(lastPress.customId, lastPress.before,
                                            embedCount)
          /\ lastPress.after \in 0..(embedCount - 1)

C37_Witness ==
    /\ lastPress # NotCalled
    /\ embedCount > 1
    /\ lastPress.customId = "next"
    /\ lastPress.before = embedCount - 1
    /\ lastPress.after = 0
    /\ presses = MaxPresses

(***************************************************************************)
(* C34  Startup race: in every interleaving of the handler loading with    *)
(* client.login the `ready` listener of the command handler is installed   *)
(* before `ready` is emitted, so that a reconciliation pass runs on every  *)
(* startup, and the pass runs only when every definition file has been     *)
(* processed.                                                              *)
(***************************************************************************)
C34_StartupRace ==
    readyEmitted =>
        /\ readyListener
        /\ Len(readyPasses) = 1
        /\ \A i \in DOMAIN readyPasses : readyPasses[i] = 0

(***************************************************************************)
(* C36  Null diff means contained: for normalised values x and y,          *)
(* findDifferences(x, y) is null exactly when x is contained in y: a       *)
(* primitive x is equal to y; every position of an array x is a position   *)
(* of the array y, of the same length, with a contained value; every key   *)
(* of an object x is a key of y with a contained value.  So a candidate    *)
(* that differs from the baseline in a field it carries never gives null.  *)
(***************************************************************************)
HasKey(y, key) == y.t = "object" /\ \E i \in 1..Len(y.v) : y.v[i][1] = key

RECURSIVE CarriedBy(_, _)
CarriedBy(x, y) ==
    IF x.t = "array"
    THEN /\ y.t = "array"
         /\ Len(x.v) = Len(y.v)
         /\ \A i \in 1..Len(x.v) : CarriedBy(x.v[i], y.v[i])
    ELSE IF x.t = "object"
    THEN \A i \in 1..Len(x.v) :
            /\ HasKey(y, x.v[i][1])
            /\ CarriedBy(x.v[i][2], GetKey(y, x.v[i][1]))
    ELSE x.t = y.t /\ x.v = y.v

C36_NullDiffMeansContained ==
    (/\ foundDifferences # NotCalled
     /\ IsNormalised(candidateObject)
     /\ IsNormalised(baselineObject)) =>
        (foundDifferences = Null <=> CarriedBy(candidateObject, baselineObject))

(***************************************************************************)
(* C38  An interactionCreate event that is not a command interaction, a    *)
(* pagination button press for one, makes the router execute no command    *)
(* and raises no error in it.                                              *)
(***************************************************************************)
C38_NonCommandInteraction ==
    handled.event.kind = "component" => (~handled.executed /\ ~handled.unhandled)

====
